---- MODULE Spec2Model ----
(***************************************************************************)
(* HistoriCast: the debate orchestration and audio-assembly pipeline.      *)
(*                                                                         *)
(* One run of the server action createDebate (app/actions.ts) around the   *)
(* flow generateHistoricalDebateFlow (ai/flows/generate-historical-        *)
(* debate.ts, the variant with the generateAudio flag).  Every await of    *)
(* the flow is one action; the outcome of the external call it waits for   *)
(* (text generation, speech synthesis, file write, ffmpeg, file delete) is *)
(* chosen nondeterministically.                                            *)
(***************************************************************************)
EXTENDS Integers, Sequences, FiniteSets, TLC

VARIABLES
    req,          \* the input of createDebate as parsed: topic, rounds, participants, generateAudio
    player,       \* the DebateResult component: its state and its audio elements
    rawRounds,    \* the rounds field of the input as received, before z.coerce.number()
    env,          \* process.env.USE_LOCAL_TTS
    pc,           \* position of the run
    useLocalTTS,  \* the flow's const useLocalTTS
    round,        \* the flow's loop variable round
    order,        \* shuffledParticipants of the current round
    pos,          \* index into order of the participant whose turn it is
    transcript,   \* the flow's transcript array
    turnData,     \* the turn under construction
    audioBase64,  \* the synthesis result of the turn under construction
    podcastFile,  \* the flow's podcastFile
    duration,     \* the flow's duration
    files,        \* the files of the public/ directory
    manifest,     \* the content of public/concat_list.txt as last written
    calls,        \* how many external calls of each kind the run has made
    log,          \* the outcome of the external calls of the current turn and of the assembly
    synthFailed,  \* the transcript indices of the turns whose synthesis call failed
    error,        \* the exception the flow threw, <<>> if none
    result,       \* what the flow returned
    envelope,     \* what createDebate returned
    prompt,       \* the rendered prompt given to the last ai.generate call
    peer,         \* a concurrent run of the same flow on the same public/ directory
    registry,     \* the persona store: the file personas.js, the loaded module, addPersona's reply
    tts           \* one call of a synthesis tool, step by step

vars == <<req, env, pc, useLocalTTS, round, order, pos, transcript, turnData,
          audioBase64, podcastFile, duration, files, manifest, calls, log, synthFailed,
          error, result, envelope, prompt, peer, rawRounds, registry, tts, player>>

(***************************************************************************)
(* Bounds of the model.                                                    *)
(***************************************************************************)
\* The most turns (rounds x participants) a request with registered or unknown
\* participants asks for, and the longest participants list and highest
\* rounds value it carries.
MaxTurns == 6
\* The same for a request that may also name an inherited property.
MaxInheritedTurns == 3

(***************************************************************************)
(* Program constants.                                                      *)
(***************************************************************************)
TopicMinLen == 3
RoundsMin == 1
RoundsMax == 5
ParticipantsMin == 2
ParticipantsMax == 5
FlowRoundsMin == 1
FlowParticipantsMin == 2

(***************************************************************************)
(* The persona registry (ai/personas.js, a plain object literal exported   *)
(* with module.exports).                                                   *)
(***************************************************************************)
Undefined == "undefined"

personas ==
    [id \in {"tesla", "nietzsche"} |->
        IF id = "tesla"
        THEN [name |-> "Nikola Tesla", systemPrompt |-> "You are Tesla.",
              voiceId |-> "voice-tesla", ollamaModel |-> "mistral"]
        ELSE [name |-> "Friedrich Nietzsche", systemPrompt |-> "You are Nietzsche.",
              voiceId |-> "voice-nietzsche", ollamaModel |-> "llama3"]]

\* Property names every object literal inherits from Object.prototype.
ObjectPrototypeKeys == {"constructor"}

\* personas[id] as JavaScript evaluates it: an own property, else a property
\* inherited from Object.prototype (personas["constructor"] is the function
\* Object, whose name is "Object" and which has none of the other fields),
\* else undefined.
PersonaLookup(id) ==
    IF id \in DOMAIN personas THEN personas[id]
    ELSE IF id \in ObjectPrototypeKeys
         THEN [name |-> "Object", systemPrompt |-> Undefined,
               voiceId |-> Undefined, ollamaModel |-> Undefined]
         ELSE [name |-> Undefined, systemPrompt |-> Undefined,
               voiceId |-> Undefined, ollamaModel |-> Undefined]

\* The truthiness of personas[id]: objects and functions are truthy, undefined is not.
LookupTruthy(id) == id \in DOMAIN personas \/ id \in ObjectPrototypeKeys

(***************************************************************************)
(* Values.                                                                 *)
(***************************************************************************)
NoAudio == <<>>
ClipName(k) == <<"clip_", k, ".wav">>
ConcatList == <<"concat_list.txt">>
FinalDebate == <<"final_debate.mp3">>
NoError == <<>>
NoTurn == [speaker |-> "", text |-> "", audioFile |-> NoAudio]
Texts == {"Stub reply."}
Wave == "UklGRg=="

HasAudio(t) == t.audioFile # NoAudio

(***************************************************************************)
(* The rounds field as it arrives, and z.coerce.number(): Number(input).   *)
(* A number is kept as its integer part (truncated towards zero) and       *)
(* whether it is that integer exactly.                                     *)
(***************************************************************************)
JsNumber(n) ==
    [type |-> "number", whole |-> n, exact |-> TRUE, str |-> <<>>, bool |-> FALSE]
\* The number n + 0.5.
JsFraction(n) ==
    [type |-> "number", whole |-> n, exact |-> FALSE, str |-> <<>>, bool |-> FALSE]
JsString(cs) ==
    [type |-> "string", whole |-> 0, exact |-> TRUE, str |-> cs, bool |-> FALSE]
JsBoolean(b) ==
    [type |-> "boolean", whole |-> 0, exact |-> TRUE, str |-> <<>>, bool |-> b]
JsUndefined ==
    [type |-> "undefined", whole |-> 0, exact |-> TRUE, str |-> <<>>, bool |-> FALSE]
JsNull ==
    [type |-> "null", whole |-> 0, exact |-> TRUE, str |-> <<>>, bool |-> FALSE]

NaN == [nan |-> TRUE, whole |-> 0, exact |-> FALSE]
Num(n, exact) == [nan |-> FALSE, whole |-> n, exact |-> exact]

DigitValue ==
    [c \in {"0", "1", "2", "3", "4", "5", "6", "7", "8", "9"} |->
        CASE c = "0" -> 0 [] c = "1" -> 1 [] c = "2" -> 2 [] c = "3" -> 3
          [] c = "4" -> 4 [] c = "5" -> 5 [] c = "6" -> 6 [] c = "7" -> 7
          [] c = "8" -> 8 [] c = "9" -> 9]

WhiteSpace == {" "}

RECURSIVE TrimStart(_)
TrimStart(cs) ==
    IF cs # <<>> /\ cs[1] \in WhiteSpace THEN TrimStart(Tail(cs)) ELSE cs

RECURSIVE TrimEnd(_)
TrimEnd(cs) ==
    IF cs # <<>> /\ cs[Len(cs)] \in WhiteSpace
    THEN TrimEnd(SubSeq(cs, 1, Len(cs) - 1)) ELSE cs

DigitsOnly(cs) == \A i \in 1..Len(cs) : cs[i] \in DOMAIN DigitValue

RECURSIVE DigitsValue(_)
DigitsValue(cs) ==
    IF cs = <<>> THEN 0
    ELSE DigitsValue(SubSeq(cs, 1, Len(cs) - 1)) * 10 + DigitValue[cs[Len(cs)]]

\* Number(string) for the decimal literals: surrounding white space is
\* dropped, the empty string is 0, then an optional sign, digits and an
\* optional fraction; anything else is NaN.  Exponents, hexadecimal literals
\* and Infinity are not among the strings drawn.
StringToNumber(cs) ==
    LET t == TrimEnd(TrimStart(cs))
        signed == t # <<>> /\ t[1] \in {"-", "+"}
        sign == IF t # <<>> /\ t[1] = "-" THEN -1 ELSE 1
        u == IF signed THEN Tail(t) ELSE t
        dots == {i \in 1..Len(u) : u[i] = "."}
    IN  IF t = <<>> THEN Num(0, TRUE)
        ELSE IF dots = {}
        THEN IF u # <<>> /\ DigitsOnly(u) THEN Num(sign * DigitsValue(u), TRUE) ELSE NaN
        ELSE IF Cardinality(dots) > 1 THEN NaN
        ELSE LET d == CHOOSE i \in dots : TRUE
                 ip == SubSeq(u, 1, d - 1)
                 fp == SubSeq(u, d + 1, Len(u))
             IN  IF (ip = <<>> /\ fp = <<>>) \/ ~DigitsOnly(ip) \/ ~DigitsOnly(fp)
                 THEN NaN
                 ELSE Num(sign * DigitsValue(ip), DigitsValue(fp) = 0)

\* Number(v)
ToNumber(v) ==
    CASE v.type = "number" -> Num(v.whole, v.exact)
      [] v.type = "string" -> StringToNumber(v.str)
      [] v.type = "boolean" -> Num(IF v.bool THEN 1 ELSE 0, TRUE)
      [] v.type = "null" -> Num(0, TRUE)
      [] v.type = "undefined" -> NaN

\* The rounds field of validationResult.data: the coerced number.  Where the
\* parse fails there is no data and the field is never read.
ParsedRounds(v) == IF ToNumber(v).nan THEN 0 ELSE ToNumber(v).whole

\* The inputs of a run.
Topics == {<<"A", "I">>, <<"W", "a", "r">>}
RegisteredIds == DOMAIN personas
UnknownIds == {"unknown"}
InheritedIds == ObjectPrototypeKeys

SeqsOver(S, lo, hi) == UNION {[1..n -> S] : n \in lo..hi}

Requests(ids, maxTurns) ==
    {r \in [topic : Topics,
            rounds : 0..maxTurns,
            participants : SeqsOver(ids, 1, maxTurns),
            generateAudio : BOOLEAN] :
        r.rounds * Len(r.participants) <= maxTurns}

NoCalls == [generate |-> 0, synthLocal |-> 0, synthCloud |-> 0, clipWrite |-> 0,
            manifestWrite |-> 0, ffmpeg |-> 0, unlink |-> 0]

\* No synthesis call was made for the turn: nothing was passed.
NoSynthInput == [text |-> "", voiceId |-> ""]

NoLog == [flow |-> "none", generate |-> "none", synth |-> "none", clip |-> "none",
          manifest |-> "none",
          ffmpeg |-> "none", unlinkManifest |-> "none", synthInput |-> NoSynthInput]

\* The value of synthFailed once a clip write has failed: the set is kept only
\* for the runs in which artifact persistence succeeds.
Untracked == {-1}

\* process.env.USE_LOCAL_TTS: set to 'true', or not set.
EnvValues == {"true", Undefined}

\* The persona store before any addPersona call: the file and the module
\* loaded from it hold the same personas.  With it the bookkeeping of the
\* calls made: how many, the values of the last one and the file as it was
\* before it.
NoAddCalls ==
    [file |-> personas, module |-> personas, reply |-> [status |-> "none"],
     count |-> 0, last |-> [id |-> ""], before |-> personas]

\* No synthesis call is being followed.  Of a call: the tool and the API key
\* it found, the requests sent, what the endpoint or the model answered, the
\* temporary files in the working directory, the outcome of each step of
\* convertMp3ToPcm, the exception waiting for its finally block, and the
\* value or the error the call ended with.
NoWave == [channels |-> 0, sampleRate |-> 0, bitDepth |-> 0, data |-> <<>>]

NoTts ==
    [pc |-> "idle", backend |-> "none", apiKey |-> "undefined", fetches |-> 0,
     response |-> "none", media |-> "none", temp |-> {}, written |-> "none",
     ffmpeg |-> "none", read |-> "none", unlinkIn |-> "none", unlinkOut |-> "none",
     pcm |-> <<>>, pending |-> <<>>, wave |-> NoWave, error |-> <<>>]

NoPrompt == [model |-> "", systemPrompt |-> "", topic |-> <<>>, round |-> 0,
             history |-> <<>>]

\* No concurrent run.  wrote: the files of public/ whose present content the
\* concurrent run wrote.
NoPeer == [pc |-> "absent", turns |-> 0, wrote |-> {}]

\* The value of registry, of tts and of player in the runs that follow
\* neither the persona store, nor the steps inside a synthesis call, nor the
\* component that shows the result.
NotFollowed == <<>>

\* The state of a run of createDebate before its first step.
InitFlowState(requests, p) ==
    /\ req \in requests
    /\ prompt = NoPrompt
    /\ peer = p
    /\ env \in EnvValues
    /\ pc = "createDebate"
    /\ useLocalTTS = FALSE
    /\ round = 0
    /\ order = <<>>
    /\ pos = 0
    /\ transcript = <<>>
    /\ turnData = NoTurn
    /\ audioBase64 = Undefined
    /\ podcastFile = ""
    /\ duration = ""
    /\ files = {}
    /\ manifest = <<>>
    /\ calls = NoCalls
    /\ log = NoLog
    /\ synthFailed = {}
    /\ error = NoError
    /\ result = [status |-> "none"]
    /\ envelope = [status |-> "none"]

InitRun(requests, p) ==
    /\ InitFlowState(requests, p)
    /\ player = NotFollowed
    /\ registry = NotFollowed
    /\ tts = NotFollowed

\* A request whose rounds field arrives as a number.
InitWith(requests, p) ==
    /\ InitRun(requests, p)
    /\ rawRounds = JsNumber(req.rounds)

Init ==
    InitWith(Requests(RegisteredIds \cup UnknownIds, MaxTurns)
                 \cup Requests(RegisteredIds \cup UnknownIds \cup InheritedIds,
                               MaxInheritedTurns),
             NoPeer)

(***************************************************************************)
(* createDebate: schema validation, app/actions.ts.                        *)
(***************************************************************************)
\* Faulty variant of RoundsErrors: the .int() check is left out.
RoundsErrorsNoInt(raw) ==
    LET n == ToNumber(raw)
    IN  IF n.nan THEN <<"Expected number, received nan">>
        ELSE (IF n.whole < RoundsMin
              THEN <<"Number must be greater than or equal to 1">> ELSE <<>>)
             \o (IF (IF n.exact THEN n.whole > RoundsMax ELSE n.whole >= RoundsMax)
                 THEN <<"Number must be less than or equal to 5">> ELSE <<>>)

\* rounds: z.coerce.number().int().min(1).max(5)
RoundsErrors(raw) ==
    LET n == ToNumber(raw)
    IN  IF n.nan THEN <<"Expected number, received nan">>
        ELSE (IF ~n.exact THEN <<"Expected integer, received float">> ELSE <<>>)
             \o (IF n.whole < RoundsMin
                 THEN <<"Number must be greater than or equal to 1">> ELSE <<>>)
             \o (IF (IF n.exact THEN n.whole > RoundsMax ELSE n.whole >= RoundsMax)
                 THEN <<"Number must be less than or equal to 5">> ELSE <<>>)

SchemaErrors(r, raw) ==
    (IF Len(r.topic) < TopicMinLen
     THEN <<"Topic must be at least 3 characters long.">> ELSE <<>>)
    \o RoundsErrors(raw)
    \o (IF Len(r.participants) < ParticipantsMin
        THEN <<"Select at least two participants.">>
        ELSE IF Len(r.participants) > ParticipantsMax
             THEN <<"Select at most five participants.">> ELSE <<>>)

CreateDebate ==
    /\ pc = "createDebate"
    /\ IF SchemaErrors(req, rawRounds) # <<>>
       THEN /\ envelope' = [status |-> "error", message |-> SchemaErrors(req, rawRounds)]
            /\ pc' = "done"
       ELSE /\ pc' = "validate"
            /\ UNCHANGED envelope
    /\ UNCHANGED <<req, player, rawRounds, registry, tts, env, prompt, peer, useLocalTTS, round, order, pos, transcript, turnData,
                   audioBase64, podcastFile, duration, files, manifest, calls, log,
                   synthFailed, error, result>>

(***************************************************************************)
(* generateHistoricalDebateFlow: input schema and participant validation.  *)
(***************************************************************************)
FlowInputOk(r) ==
    /\ r.rounds >= FlowRoundsMin
    /\ Len(r.participants) >= FlowParticipantsMin

\* The index of the first participant the validation loop rejects, 0 if none.
FirstRejected(ps) ==
    LET bad == {i \in 1..Len(ps) : ~LookupTruthy(ps[i])}
    IN  IF bad = {} THEN 0 ELSE CHOOSE i \in bad : \A j \in bad : i <= j

\* process.env.USE_LOCAL_TTS === 'true'
UseLocalTTS(e) == e = "true"

ValidateParticipants ==
    /\ pc = "validate"
    /\ log' = [log EXCEPT !.flow = "invoked"]
    /\ useLocalTTS' = UseLocalTTS(env)
    /\ transcript' = <<>>
    /\ IF ~FlowInputOk(req)
       THEN /\ error' = <<"Schema validation failed">>
            /\ pc' = "thrown"
            /\ UNCHANGED round
       ELSE IF FirstRejected(req.participants) # 0
       THEN /\ error' = <<"Invalid participant ID: ",
                          req.participants[FirstRejected(req.participants)]>>
            /\ pc' = "thrown"
            /\ UNCHANGED round
       ELSE /\ round' = 1
            /\ pc' = "round"
            /\ UNCHANGED error
    /\ UNCHANGED <<req, player, rawRounds, registry, tts, env, prompt, peer, order, pos, turnData, audioBase64, podcastFile, duration,
                   files, manifest, calls, synthFailed, result, envelope>>

(***************************************************************************)
(* The debate loop.                                                        *)
(***************************************************************************)
\* Faulty variant of RoundsRemain: the loop stops one round early.
RoundsRemainOffByOne(r, n) == r < n

RoundsRemain(r, n) == r <= n

\* Faulty variant of Shuffles: the participants speak in the order given.
ShufflesFixed(ps) == {ps}

\* Faulty variant of Shuffles: every place is drawn from the participants
\* independently of the others.
ShufflesWithReplacement(ps) ==
    LET n == Len(ps)
    IN  {[i \in 1..n |-> ps[f[i]]] : f \in [1..n -> 1..n]}

\* [...participants].sort(() => Math.random() - 0.5): some rearrangement of
\* the participants.
Shuffles(ps) ==
    LET n == Len(ps)
        bij == {f \in [1..n -> 1..n] : \A i, j \in 1..n : f[i] = f[j] => i = j}
    IN  {[i \in 1..n |-> ps[f[i]]] : f \in bij}

StartRound ==
    /\ pc = "round"
    /\ RoundsRemain(round, req.rounds)
    /\ \E o \in Shuffles(req.participants) : order' = o
    /\ pos' = 1
    /\ pc' = "generate"
    /\ UNCHANGED <<req, player, rawRounds, registry, tts, env, prompt, peer, useLocalTTS, round, transcript, turnData, audioBase64,
                   podcastFile, duration, files, manifest, calls, log, synthFailed,
                   error, result, envelope>>

\* Faulty variant of NeedsAudio: the flag of the request is ignored.
NeedsAudioAlways(r) == TRUE

NeedsAudio(r) == r.generateAudio

\* Faulty variant of OnGenerationError: the failure is swallowed and the turn goes on.
OnGenerationErrorSwallowed ==
    /\ pc' = "push"
    /\ UNCHANGED <<error, turnData>>

\* ai.generate fails: the exception leaves the flow.
OnGenerationError ==
    /\ error' = <<"Generation failed">>
    /\ pc' = "thrown"
    /\ UNCHANGED turnData

OnGenerationText(text) ==
    /\ turnData' = [speaker |-> PersonaLookup(order[pos]).name, text |-> text,
                    audioFile |-> NoAudio]
    /\ pc' = IF NeedsAudio(req) THEN "synth" ELSE "push"
    /\ UNCHANGED error

\* Faulty variant of PromptHistory: the turn appended last is missing, as
\* when the prompt is built before the previous turn was pushed.
PromptHistoryStale(t) ==
    [i \in 1..(IF Len(t) = 0 THEN 0 ELSE Len(t) - 1) |-> <<t[i].speaker, t[i].text>>]

\* Faulty variant of PromptHistory: the newest turn comes first.
PromptHistoryReversed(t) ==
    [i \in 1..Len(t) |-> <<t[Len(t) + 1 - i].speaker, t[Len(t) + 1 - i].text>>]

\* {{#each transcript}}{{{speaker}}}: {{{text}}}{{/each}}
PromptHistory(t) == [i \in 1..Len(t) |-> <<t[i].speaker, t[i].text>>]

\* debatePrompt.render(promptInput) and the model of the call.
RenderPrompt(persona, topic, r, t) ==
    [model |-> persona.ollamaModel, systemPrompt |-> persona.systemPrompt,
     topic |-> topic, round |-> r, history |-> PromptHistory(t)]

\* One turn's ai.generate call, the backend answering with one of texts.  Its
\* outcome is open for every participant, also for one whose persona is an
\* inherited property of the registry.
GenerateFrom(texts) ==
    /\ pc = "generate"
    /\ calls' = [calls EXCEPT !.generate = @ + 1]
    /\ prompt' = RenderPrompt(PersonaLookup(order[pos]), req.topic, round, transcript)
    /\ audioBase64' = Undefined
    /\ \/ /\ log' = [log EXCEPT !.generate = "ok"]
          /\ \E text \in texts : OnGenerationText(text)
       \/ /\ log' = [log EXCEPT !.generate = "fail"]
          /\ OnGenerationError
    /\ UNCHANGED <<req, player, rawRounds, registry, tts, env, peer, useLocalTTS, round, order, pos, transcript, podcastFile,
                   duration, files, manifest, synthFailed, result, envelope>>

Generate == GenerateFrom(Texts)

\* Faulty variant of Backend: the environment is read at every call.
BackendFromEnv(local) == IF UseLocalTTS(env) THEN "synthLocal" ELSE "synthCloud"

\* if (useLocalTTS) synthesizeSpeechLocal(...) else synthesizeSpeechElevenLabs(...)
Backend(local) == IF local THEN "synthLocal" ELSE "synthCloud"

\* Faulty variant of OnSynthesisError: the synthesis call is made again.
OnSynthesisErrorRetried ==
    /\ pc' = "synth"
    /\ UNCHANGED error

\* Faulty variant of OnSynthesisError: the exception leaves the flow.
OnSynthesisErrorRethrown ==
    /\ pc' = "thrown"
    /\ error' = <<"Failed to synthesize speech">>

\* The catch around the synthesis call and the branch for an empty result:
\* the condition is logged and the turn goes on without audio.
OnSynthesisError ==
    /\ pc' = "push"
    /\ UNCHANGED error

\* Faulty variant of SynthInput: every turn is spoken with the same voice.
SynthInputDefaultVoice(persona, text) == [text |-> text, voiceId |-> "voice-tesla"]

\* The argument of the synthesis call: {text: text, voiceId: persona.voiceId}
SynthInput(persona, text) == [text |-> text, voiceId |-> persona.voiceId]

NoteSynthFailed(S, k) == IF S = Untracked THEN S ELSE S \cup {k}

Synthesize ==
    /\ pc = "synth"
    /\ calls' = [calls EXCEPT ![Backend(useLocalTTS)] = @ + 1]
    /\ \/ /\ log' = [log EXCEPT !.synth = "ok", !.synthInput =
                         SynthInput(PersonaLookup(order[pos]), turnData.text)]
          /\ audioBase64' = Wave
          /\ pc' = "writeClip"
          /\ UNCHANGED <<error, synthFailed>>
       \/ /\ log' = [log EXCEPT !.synth = "empty", !.synthInput =
                         SynthInput(PersonaLookup(order[pos]), turnData.text)]
          /\ audioBase64' = ""
          /\ synthFailed' = NoteSynthFailed(synthFailed, Len(transcript))
          /\ OnSynthesisError
       \/ /\ log' = [log EXCEPT !.synth = "throw", !.synthInput =
                         SynthInput(PersonaLookup(order[pos]), turnData.text)]
          /\ audioBase64' = Undefined
          /\ synthFailed' = NoteSynthFailed(synthFailed, Len(transcript))
          /\ OnSynthesisError
    /\ UNCHANGED <<req, player, rawRounds, registry, tts, env, prompt, peer, useLocalTTS, round, order, pos, transcript, turnData,
                   podcastFile, duration, files, manifest, result, envelope>>

\* This run wrote or removed the files names: their content is no longer the
\* concurrent run's.
Mine(names) == peer' = [peer EXCEPT !.wrote = @ \ names]

\* Faulty variant of OnClipWriteError: the turn keeps the name of the file
\* that was not written.
OnClipWriteErrorKeepsName ==
    /\ turnData' = [turnData EXCEPT !.audioFile = ClipName(Len(transcript))]
    /\ UNCHANGED <<files, peer>>

\* fs.writeFile rejects inside the try block: the assignment of
\* turnData.audioFile is skipped and the catch logs the failure.
OnClipWriteError == UNCHANGED <<files, turnData, peer>>

\* Faulty variant of ClipIndex: the clip is numbered by the round.
ClipIndexByRound(t, r) == r

\* clip_${transcript.length}.wav
ClipIndex(t, r) == Len(t)

WriteClip ==
    /\ pc = "writeClip"
    /\ calls' = [calls EXCEPT !.clipWrite = @ + 1]
    /\ \/ /\ log' = [log EXCEPT !.clip = "ok"]
          /\ files' = files \cup {ClipName(ClipIndex(transcript, round))}
          /\ Mine({ClipName(ClipIndex(transcript, round))})
          /\ turnData' = [turnData EXCEPT
                              !.audioFile = ClipName(ClipIndex(transcript, round))]
          /\ UNCHANGED synthFailed
       \/ /\ log' = [log EXCEPT !.clip = "fail"]
          /\ synthFailed' = Untracked
          /\ OnClipWriteError
    /\ pc' = "push"
    /\ UNCHANGED <<req, player, rawRounds, registry, tts, env, prompt, useLocalTTS, round, order, pos, transcript, audioBase64,
                   podcastFile, duration, manifest, error, result, envelope>>

\* Faulty variant of Pushed: the turn is put in front.
PushedInFront(t, turn) == <<turn>> \o t

\* transcript.push(turnData)
Pushed(t, turn) == Append(t, turn)

PushTurn ==
    /\ pc = "push"
    /\ transcript' = Pushed(transcript, turnData)
    /\ turnData' = NoTurn
    /\ audioBase64' = Undefined
    /\ log' = [log EXCEPT !.generate = "none", !.synth = "none", !.clip = "none",
                          !.synthInput = NoSynthInput]
    /\ IF pos < Len(order)
       THEN /\ pos' = pos + 1
            /\ pc' = "generate"
            /\ UNCHANGED round
       ELSE /\ round' = round + 1
            /\ pc' = "round"
            /\ UNCHANGED pos
    /\ UNCHANGED <<req, player, rawRounds, registry, tts, env, prompt, peer, useLocalTTS, order, podcastFile, duration, files, manifest,
                   calls, synthFailed, error, result, envelope>>

(***************************************************************************)
(* The assembly step.                                                      *)
(***************************************************************************)
\* Faulty variant of AudioFilesToConcat: the turns are not filtered.
AudioFilesUnfiltered(t) == t

AudioFilesToConcat(t) == SelectSeq(t, HasAudio)

\* One line of concat_list.txt: file '<cwd>/public/<audioFile>'.
ConcatLine(turn) == <<"file '", "public", turn.audioFile, "'">>

ConcatListContent(ts) == [i \in 1..Len(ts) |-> ConcatLine(ts[i])]

\* Faulty variant of ShouldAssemble: the transcript is not inspected.
ShouldAssembleOnFlag(ga, t) == ga

\* Faulty variant of ShouldAssemble: assembly is entered after every loop.
ShouldAssembleAlways(ga, t) == TRUE

ShouldAssemble(ga, t) ==
    /\ ga
    /\ \E i \in 1..Len(t) : HasAudio(t[i])
    /\ Len(AudioFilesToConcat(t)) > 0

EndRounds ==
    /\ pc = "round"
    /\ ~RoundsRemain(round, req.rounds)
    /\ duration' = "0:00"
    /\ IF ShouldAssemble(req.generateAudio, transcript)
       THEN /\ podcastFile' = "final_debate.mp3"
            /\ pc' = "writeManifest"
       ELSE /\ podcastFile' = ""
            /\ pc' = "return"
    /\ UNCHANGED <<req, player, rawRounds, registry, tts, env, prompt, peer, useLocalTTS, round, order, pos, transcript, turnData,
                   audioBase64, files, manifest, calls, log, synthFailed, error,
                   result, envelope>>

\* fs.writeFile(concatListPath, ...) is awaited outside the try block.
WriteManifest ==
    /\ pc = "writeManifest"
    /\ calls' = [calls EXCEPT !.manifestWrite = @ + 1]
    /\ \/ /\ log' = [log EXCEPT !.manifest = "ok"]
          /\ manifest' = ConcatListContent(AudioFilesToConcat(transcript))
          /\ files' = files \cup {ConcatList}
          /\ Mine({ConcatList})
          /\ pc' = "unlinkPodcast"
          /\ UNCHANGED error
       \/ /\ log' = [log EXCEPT !.manifest = "fail"]
          /\ error' = <<"writeFile failed: ", "concat_list.txt">>
          /\ pc' = "thrown"
          /\ UNCHANGED <<manifest, files, peer>>
    /\ UNCHANGED <<req, player, rawRounds, registry, tts, env, prompt, useLocalTTS, round, order, pos, transcript, turnData,
                   audioBase64, podcastFile, duration, synthFailed, result, envelope>>

\* fs.unlink(podcastFilePath).catch(() => {}): a failure is swallowed.
UnlinkPodcast ==
    /\ pc = "unlinkPodcast"
    /\ calls' = [calls EXCEPT !.unlink = @ + 1]
    /\ \/ /\ files' = files \ {FinalDebate}
          /\ Mine({FinalDebate})
       \/ UNCHANGED <<files, peer>>
    /\ pc' = "ffmpeg"
    /\ UNCHANGED <<req, player, rawRounds, registry, tts, env, prompt, useLocalTTS, round, order, pos, transcript, turnData,
                   audioBase64, podcastFile, duration, manifest, log, synthFailed,
                   error, result, envelope>>

\* Faulty variant of DurationOnSuccess: the duration grows with the clips.
DurationByClips(t) == IF Len(AudioFilesToConcat(t)) > 1 THEN "12:45" ELSE "6:22"

\* duration = '12:45' after the command succeeded, whatever was assembled.
DurationOnSuccess(t) == "12:45"

\* Faulty variant of OnFfmpegError: the podcast is named all the same.
OnFfmpegErrorNamesPodcast == podcastFile' = "final_debate.mp3"

\* Faulty variant of OnFfmpegError: podcastFile is not reset.
OnFfmpegErrorKeepsPodcast == UNCHANGED podcastFile

\* The catch around execAsync(command).
OnFfmpegError == podcastFile' = ""

\* Faulty variant of AfterFfmpeg: after a failure of the command the flow
\* waits for a step that never comes.
AfterFfmpegStuck(ok) == IF ok THEN "unlinkManifest" ELSE "ffmpegFailed"

\* Faulty variant of AfterFfmpeg: the manifest is removed on the success path only.
AfterFfmpegNoFinally(ok) == IF ok THEN "unlinkManifest" ELSE "return"

\* The finally block runs after the try block and after the catch block.
AfterFfmpeg(ok) == "unlinkManifest"

Ffmpeg ==
    /\ pc = "ffmpeg"
    /\ calls' = [calls EXCEPT !.ffmpeg = @ + 1]
    /\ \/ /\ ConcatList \in files
          /\ log' = [log EXCEPT !.ffmpeg = "ok"]
          /\ files' = files \cup {FinalDebate}
          /\ Mine({FinalDebate})
          /\ duration' = DurationOnSuccess(transcript)
          /\ pc' = AfterFfmpeg(TRUE)
          /\ UNCHANGED podcastFile
       \/ /\ log' = [log EXCEPT !.ffmpeg = "fail"]
          /\ \/ UNCHANGED <<files, peer>>
             \/ /\ files' = files \cup {FinalDebate}
                /\ Mine({FinalDebate})
          /\ OnFfmpegError
          /\ pc' = AfterFfmpeg(FALSE)
          /\ UNCHANGED duration
    /\ UNCHANGED <<req, player, rawRounds, registry, tts, env, prompt, useLocalTTS, round, order, pos, transcript, turnData,
                   audioBase64, manifest, synthFailed, error, result, envelope>>

\* fs.unlink(concatListPath).catch(console.error): a failure is logged.
UnlinkManifest ==
    /\ pc = "unlinkManifest"
    /\ calls' = [calls EXCEPT !.unlink = @ + 1]
    /\ \/ /\ log' = [log EXCEPT !.unlinkManifest = "ok"]
          /\ files' = files \ {ConcatList}
          /\ Mine({ConcatList})
       \/ /\ log' = [log EXCEPT !.unlinkManifest = "fail"]
          /\ UNCHANGED <<files, peer>>
    /\ pc' = "return"
    /\ UNCHANGED <<req, player, rawRounds, registry, tts, env, prompt, useLocalTTS, round, order, pos, transcript, turnData,
                   audioBase64, podcastFile, duration, manifest, synthFailed, error,
                   result, envelope>>

\* Faulty variant of AudioGenerated: whether some turn got audio.
AudioGeneratedIfAny(ga, t) == ga /\ \E i \in 1..Len(t) : HasAudio(t[i])

\* audioGenerated: generateAudio
AudioGenerated(ga, t) == ga

ReturnResult ==
    /\ pc = "return"
    /\ result' = [status |-> "success",
                  data |-> [transcript |-> transcript, podcast |-> podcastFile,
                            duration |-> duration,
                            audioGenerated |->
                                AudioGenerated(req.generateAudio, transcript)]]
    /\ pc' = "returned"
    /\ UNCHANGED <<req, player, rawRounds, registry, tts, env, prompt, peer, useLocalTTS, round, order, pos, transcript, turnData,
                   audioBase64, podcastFile, duration, files, manifest, calls, log,
                   synthFailed, error, envelope>>

(***************************************************************************)
(* createDebate: the try/catch around the flow.                            *)
(***************************************************************************)
CreateDebateReturn ==
    /\ pc = "returned"
    /\ envelope' = IF result.status = "success"
                   THEN [status |-> "success", data |-> result.data]
                   ELSE [status |-> "error",
                         message |-> <<"The generation flow failed to return a success status.">>]
    /\ pc' = "done"
    /\ UNCHANGED <<req, player, rawRounds, registry, tts, env, prompt, peer, useLocalTTS, round, order, pos, transcript, turnData,
                   audioBase64, podcastFile, duration, files, manifest, calls, log,
                   synthFailed, error, result>>

\* Faulty variant of OnFlowError: the exception leaves createDebate.
OnFlowErrorRethrown ==
    /\ pc' = "rejected"
    /\ UNCHANGED envelope

\* catch (error): return { status: 'error', message }, the message being
\* error.message, as everything the flow throws is an Error.
OnFlowError ==
    /\ envelope' = [status |-> "error", message |-> error]
    /\ pc' = "done"

CreateDebateCatch ==
    /\ pc = "thrown"
    /\ OnFlowError
    /\ UNCHANGED <<req, player, rawRounds, registry, tts, env, prompt, peer, useLocalTTS, round, order, pos, transcript, turnData,
                   audioBase64, podcastFile, duration, files, manifest, calls, log,
                   synthFailed, error, result>>

Next ==
    \/ CreateDebate
    \/ ValidateParticipants
    \/ StartRound
    \/ Generate
    \/ Synthesize
    \/ WriteClip
    \/ PushTurn
    \/ EndRounds
    \/ WriteManifest
    \/ UnlinkPodcast
    \/ Ffmpeg
    \/ UnlinkManifest
    \/ ReturnResult
    \/ CreateDebateReturn
    \/ CreateDebateCatch

Spec == Init /\ [][Next]_vars

(***************************************************************************)
(* The run with a backend that may answer with empty output.               *)
(***************************************************************************)
MaxEmptyTextTurns == 2

\* response.text of a call that succeeded: some text, or the empty string.
BackendTexts == Texts \cup {""}

GenerateAnyText == GenerateFrom(BackendTexts)

InitAnyText ==
    InitWith(Requests(RegisteredIds \cup UnknownIds, MaxEmptyTextTurns), NoPeer)

NextAnyText ==
    \/ CreateDebate
    \/ ValidateParticipants
    \/ StartRound
    \/ GenerateAnyText
    \/ Synthesize
    \/ WriteClip
    \/ PushTurn
    \/ EndRounds
    \/ WriteManifest
    \/ UnlinkPodcast
    \/ Ffmpeg
    \/ UnlinkManifest
    \/ ReturnResult
    \/ CreateDebateReturn
    \/ CreateDebateCatch

SpecAnyText == InitAnyText /\ [][NextAnyText]_vars

(***************************************************************************)
(* Two runs of the flow at the same time.  Both write into the one public/ *)
(* directory, under the file names the flow computes; the second run is    *)
(* followed only through its file operations.                              *)
(***************************************************************************)
MaxConcurrentTurns == 2
MaxPeerTurns == 2

PeerStart == [pc |-> "turns", turns |-> 0, wrote |-> {}]

\* The other run persists the clip of its next turn: clip_${transcript.length}.wav
PeerWriteClip ==
    /\ peer.pc = "turns"
    /\ peer.turns < MaxPeerTurns
    /\ files' = files \cup {ClipName(ClipIndex([i \in 1..peer.turns |-> NoTurn], 0))}
    /\ peer' = [peer EXCEPT
                   !.turns = @ + 1,
                   !.wrote = @ \cup {ClipName(ClipIndex([i \in 1..peer.turns |-> NoTurn], 0))}]
    /\ UNCHANGED <<req, player, rawRounds, registry, tts, env, prompt, pc, useLocalTTS, round, order, pos, transcript,
                   turnData, audioBase64, podcastFile, duration, manifest, calls, log,
                   synthFailed, error, result, envelope>>

\* The other run, some of its turns having audio, writes its concat list.
PeerWriteManifest ==
    /\ peer.pc = "turns"
    /\ peer.turns > 0
    /\ files' = files \cup {ConcatList}
    /\ peer' = [peer EXCEPT !.pc = "ffmpeg", !.wrote = @ \cup {ConcatList}]
    /\ UNCHANGED <<req, player, rawRounds, registry, tts, env, prompt, pc, useLocalTTS, round, order, pos, transcript,
                   turnData, audioBase64, podcastFile, duration, manifest, calls, log,
                   synthFailed, error, result, envelope>>

\* The other run's ffmpeg call; it succeeds only if the concat list is there.
PeerFfmpeg ==
    /\ peer.pc = "ffmpeg"
    /\ \/ /\ ConcatList \in files
          /\ files' = files \cup {FinalDebate}
          /\ peer' = [peer EXCEPT !.pc = "unlinkManifest",
                                  !.wrote = @ \cup {FinalDebate}]
       \/ /\ files' = files
          /\ peer' = [peer EXCEPT !.pc = "unlinkManifest"]
    /\ UNCHANGED <<req, player, rawRounds, registry, tts, env, prompt, pc, useLocalTTS, round, order, pos, transcript,
                   turnData, audioBase64, podcastFile, duration, manifest, calls, log,
                   synthFailed, error, result, envelope>>

\* The other run's finally block: fs.unlink(concatListPath).
PeerUnlinkManifest ==
    /\ peer.pc = "unlinkManifest"
    /\ files' = files \ {ConcatList}
    /\ peer' = [peer EXCEPT !.pc = "done", !.wrote = @ \ {ConcatList}]
    /\ UNCHANGED <<req, player, rawRounds, registry, tts, env, prompt, pc, useLocalTTS, round, order, pos, transcript,
                   turnData, audioBase64, podcastFile, duration, manifest, calls, log,
                   synthFailed, error, result, envelope>>

InitConcurrent ==
    InitWith({r \in Requests(RegisteredIds \cup UnknownIds, MaxConcurrentTurns) :
                  r.generateAudio},
             PeerStart)

NextConcurrent ==
    \/ CreateDebate
    \/ ValidateParticipants
    \/ StartRound
    \/ Generate
    \/ Synthesize
    \/ WriteClip
    \/ PushTurn
    \/ EndRounds
    \/ WriteManifest
    \/ UnlinkPodcast
    \/ Ffmpeg
    \/ UnlinkManifest
    \/ ReturnResult
    \/ CreateDebateReturn
    \/ CreateDebateCatch
    \/ PeerWriteClip
    \/ PeerWriteManifest
    \/ PeerFfmpeg
    \/ PeerUnlinkManifest

SpecConcurrent == InitConcurrent /\ [][NextConcurrent]_vars

(***************************************************************************)
(* createDebate called with a rounds field of any JavaScript type.         *)
(***************************************************************************)
MaxRawTurns == 2
MaxRawParticipants == 6

RawRoundsInputs ==
    {JsNumber(n) : n \in {-1, 0, 1, 6}}
        \cup {JsFraction(n) : n \in {0, 1, 5}}
        \cup {JsString(cs) : cs \in {<<>>, <<"1">>, <<" ", "1", " ">>, <<"1", ".", "0">>,
                                      <<"1", ".">>, <<"1", ".", "5">>, <<".", "5">>,
                                      <<"+", "1">>, <<"-", "1">>, <<"6">>,
                                      <<"o", "n", "e">>, <<"1", " ", "1">>}}
        \cup {JsBoolean(b) : b \in BOOLEAN}
        \cup {JsUndefined, JsNull}

InitAnyRounds ==
    /\ rawRounds \in RawRoundsInputs
    /\ InitRun({r \in [topic : Topics,
                       rounds : {ParsedRounds(rawRounds)},
                       participants : SeqsOver(RegisteredIds \cup UnknownIds, 1,
                                               MaxRawParticipants),
                       generateAudio : BOOLEAN] :
                    \/ r.rounds * Len(r.participants) <= MaxRawTurns
                    \/ Len(r.participants) > ParticipantsMax},
               NoPeer)

SpecAnyRounds == InitAnyRounds /\ [][Next]_vars

(***************************************************************************)
(* addPersona (app/actions.ts): calls one after the other in one server    *)
(* process.  The handler tests and spreads the imported module object and  *)
(* writes the file personas.js; the module object changes only when the    *)
(* module is evaluated again.                                              *)
(***************************************************************************)
MaxAddCalls == 3

IdMinLen == 3
NameMinLen == 3
SystemPromptMinLen == 10
VoiceIdMinLen == 1
OllamaModelMinLen == 1

\* The characters of the ids and the lengths of the other strings drawn.
IdChars(id) ==
    CASE id = "tesla" -> <<"t", "e", "s", "l", "a">>
      [] id = "curie" -> <<"c", "u", "r", "i", "e">>
      [] id = "ada-1" -> <<"a", "d", "a", "-", "1">>
      [] id = "ab" -> <<"a", "b">>
      [] id = "Curie" -> <<"C", "u", "r", "i", "e">>
      [] id = "ada-" -> <<"a", "d", "a", "-">>

StrLen(str) ==
    CASE str = "" -> 0
      [] str = "MC" -> 2
      [] str = "Marie Curie" -> 11
      [] str = "Ada Lovelace" -> 12
      [] str = "You are." -> 8
      [] str = "You are a scientist." -> 20
      [] str = "Algenib" -> 7
      [] str = "mistral" -> 7

LowerAlnum ==
    {"a", "b", "c", "d", "e", "i", "l", "r", "s", "t", "u"}
        \cup {"0", "1", "2", "3", "4", "5", "6", "7", "8", "9"}

\* /^[a-z0-9]+(?:-[a-z0-9]+)*$/
IdPattern(cs) ==
    /\ cs # <<>>
    /\ \A i \in 1..Len(cs) : cs[i] \in LowerAlnum \cup {"-"}
    /\ cs[1] # "-"
    /\ cs[Len(cs)] # "-"
    /\ \A i \in 1..(Len(cs) - 1) : ~(cs[i] = "-" /\ cs[i + 1] = "-")

AddPersonaErrors(v) ==
    (IF Len(IdChars(v.id)) < IdMinLen
     THEN <<"ID must be at least 3 characters long.">> ELSE <<>>)
    \o (IF ~IdPattern(IdChars(v.id))
        THEN <<"ID can only contain lowercase letters, numbers, and hyphens.">>
        ELSE <<>>)
    \o (IF StrLen(v.name) < NameMinLen
        THEN <<"Name must be at least 3 characters long.">> ELSE <<>>)
    \o (IF StrLen(v.systemPrompt) < SystemPromptMinLen
        THEN <<"System prompt must be at least 10 characters long.">> ELSE <<>>)
    \o (IF StrLen(v.voiceId) < VoiceIdMinLen
        THEN <<"Please select a voice.">> ELSE <<>>)
    \o (IF StrLen(v.ollamaModel) < OllamaModelMinLen
        THEN <<"Please select a model.">> ELSE <<>>)

PersonaInputs ==
    [id : {"tesla", "curie", "ada-1", "ab", "Curie", "ada-"},
     name : {"Marie Curie", "Ada Lovelace", "MC"},
     systemPrompt : {"You are a scientist.", "You are."},
     voiceId : {"Algenib", ""},
     ollamaModel : {"mistral"}]

\* Object.keys(personas): the own keys of the imported module object.
KnownIds(reg) == DOMAIN reg.module

\* { ...personas, [id]: newPersona }
WithPersona(ps, id, persona) ==
    [k \in DOMAIN ps \cup {id} |-> IF k = id THEN persona ELSE ps[k]]

\* All variables but registry.
runVars == <<req, player, rawRounds, env, pc, useLocalTTS, round, order, pos, transcript,
             turnData, audioBase64, podcastFile, duration, files, manifest, calls, log,
             synthFailed, error, result, envelope, prompt, peer, tts>>

\* One call of addPersona, from the validation to the return.
AddPersona(v) ==
    /\ registry.count < MaxAddCalls
    /\ LET called == [registry EXCEPT !.count = @ + 1, !.last = v,
                                      !.before = registry.file]
           newPersona == [name |-> v.name, systemPrompt |-> v.systemPrompt,
                          voiceId |-> v.voiceId, ollamaModel |-> v.ollamaModel]
       IN  IF AddPersonaErrors(v) # <<>>
           THEN registry' = [called EXCEPT
                                !.reply = [status |-> "error",
                                           message |-> AddPersonaErrors(v)]]
           ELSE IF v.id \in KnownIds(registry)
           THEN registry' = [called EXCEPT
                                !.reply = [status |-> "error",
                                           message |-> <<"Participant with ID '", v.id,
                                                         "' already exists.">>]]
           ELSE \/ registry' = [called EXCEPT
                                   !.file = WithPersona(registry.module, v.id, newPersona),
                                   !.reply = [status |-> "success",
                                              message |-> <<"Participant added successfully!">>]]
                \/ registry' = [called EXCEPT
                                   !.reply = [status |-> "error",
                                              message |-> <<"EACCES: permission denied">>]]
    /\ UNCHANGED runVars

\* personas.js is evaluated again (the development server picks up the
\* changed source file, or the process is restarted).
ReloadPersonas ==
    /\ registry.module # registry.file
    /\ registry' = [registry EXCEPT !.module = registry.file]
    /\ UNCHANGED runVars

InitPersonas ==
    /\ registry = NoAddCalls
    /\ player = NotFollowed
    /\ tts = NotFollowed
    /\ InitFlowState({[topic |-> <<"W", "a", "r">>, rounds |-> 1,
                 participants |-> <<"tesla", "nietzsche">>, generateAudio |-> FALSE]},
               NoPeer)
    /\ rawRounds = JsNumber(req.rounds)

NextPersonas ==
    \/ \E v \in PersonaInputs : AddPersona(v)
    \/ ReloadPersonas

SpecPersonas == InitPersonas /\ [][NextPersonas]_vars

(***************************************************************************)
(* One call of a synthesis tool, await by await: synthesizeSpeechElevenLabs *)
(* with convertMp3ToPcm and toWav, and synthesizeSpeechLocal with toWav.   *)
(***************************************************************************)
WavChannels == 1
WavRate == 24000
WavSampleWidth == 2
BitsPerByte == 8

\* process.env.ELEVENLABS_API_KEY
ApiKeys == {Undefined, "", "sk-key"}

\* Faulty variant of ApiKeyPresent: the key is not looked at.
ApiKeyAssumed(key) == TRUE

\* if (!apiKey) throw: undefined and the empty string are falsy.
ApiKeyPresent(key) == key \notin {Undefined, ""}

TempIn == <<"temp-in-", "now", ".mp3">>
TempOut == <<"temp-out-", "now", ".s16le">>

\* The samples ffmpeg decoded, or the model returned.
PcmData == {<<>>, <<"s1", "s2">>}

\* Faulty variant of ToWav: the sample width in bytes is given as bit depth.
ToWavWidthAsDepth(pcmData, channels, rate, sampleWidth) ==
    [channels |-> channels, sampleRate |-> rate, bitDepth |-> sampleWidth,
     data |-> pcmData]

\* toWav: the header wav.Writer puts before the samples, and the samples;
\* the whole is returned base64-encoded.
ToWav(pcmData, channels, rate, sampleWidth) ==
    [channels |-> channels, sampleRate |-> rate, bitDepth |-> sampleWidth * BitsPerByte,
     data |-> pcmData]

\* Faulty variant of Unlinked: the file stays.
UnlinkedNothing(temp, f) == temp

\* fs.unlink(f) that succeeded.
Unlinked(temp, f) == temp \ {f}

\* All variables but tts.
nonTtsVars == <<req, player, rawRounds, env, pc, useLocalTTS, round, order, pos, transcript,
                turnData, audioBase64, podcastFile, duration, files, manifest, calls,
                log, synthFailed, error, result, envelope, prompt, peer, registry>>

\* The tool ends with an error.
TtsThrows(t, message) == [t EXCEPT !.pc = "done", !.error = message]

\* catch (error) of synthesizeSpeechElevenLabs
OnCloudError(t, message) ==
    TtsThrows(t, <<"Failed to synthesize speech: ">> \o message)

\* catch (error) of synthesizeSpeechLocal
OnLocalError(t, message) ==
    TtsThrows(t, <<"Failed to synthesize speech locally: ">> \o message)

CloudStart ==
    /\ tts.pc = "idle"
    /\ \E key \in ApiKeys :
           tts' = [tts EXCEPT !.pc = "checkKey", !.backend = "cloud", !.apiKey = key]
    /\ UNCHANGED nonTtsVars

CloudCheckKey ==
    /\ tts.pc = "checkKey"
    /\ tts' = IF ~ApiKeyPresent(tts.apiKey)
              THEN TtsThrows(tts, <<"ElevenLabs API key is missing. Set the ELEVENLABS_API_KEY environment variable.">>)
              ELSE [tts EXCEPT !.pc = "fetch"]
    /\ UNCHANGED nonTtsVars

\* fetch, response.ok and response.arrayBuffer()
CloudFetch ==
    /\ tts.pc = "fetch"
    /\ LET sent == [tts EXCEPT !.fetches = @ + 1]
       IN  \/ tts' = [sent EXCEPT !.response = "ok", !.pc = "convertWrite"]
           \/ tts' = OnCloudError([sent EXCEPT !.response = "notOk"],
                                  <<"ElevenLabs API error: ", "401", "Unauthorized">>)
           \/ tts' = OnCloudError([sent EXCEPT !.response = "reject"], <<"fetch failed">>)
    /\ UNCHANGED nonTtsVars

\* convertMp3ToPcm: fs.writeFile(tempInPath, mp3Data).  A write that fails
\* may have created the file.
ConvertWriteInput ==
    /\ tts.pc = "convertWrite"
    /\ \/ tts' = [tts EXCEPT !.written = "ok", !.temp = @ \cup {TempIn},
                              !.pc = "convertFfmpeg"]
       \/ \E left \in SUBSET {TempIn} :
              tts' = [tts EXCEPT !.written = "fail", !.temp = @ \cup left,
                                 !.pending = <<"ENOSPC: no space left on device">>,
                                 !.pc = "unlinkIn"]
    /\ UNCHANGED nonTtsVars

\* convertMp3ToPcm: execAsync(ffmpeg ...).  A command that fails may have
\* created its output file.
ConvertFfmpeg ==
    /\ tts.pc = "convertFfmpeg"
    /\ \/ tts' = [tts EXCEPT !.ffmpeg = "ok", !.temp = @ \cup {TempOut},
                              !.pc = "convertRead"]
       \/ \E left \in SUBSET {TempOut} :
              tts' = [tts EXCEPT !.ffmpeg = "fail", !.temp = @ \cup left,
                                 !.pending = <<"Command failed: ffmpeg">>,
                                 !.pc = "unlinkIn"]
    /\ UNCHANGED nonTtsVars

\* convertMp3ToPcm: fs.readFile(tempOutPath)
ConvertRead ==
    /\ tts.pc = "convertRead"
    /\ \/ \E samples \in PcmData :
              tts' = [tts EXCEPT !.read = "ok", !.pcm = samples, !.pc = "unlinkIn"]
       \/ tts' = [tts EXCEPT !.read = "fail", !.pending = <<"EIO: i/o error">>,
                              !.pc = "unlinkIn"]
    /\ UNCHANGED nonTtsVars

\* finally: fs.unlink(tempInPath).catch(console.error)
ConvertUnlinkIn ==
    /\ tts.pc = "unlinkIn"
    /\ \/ /\ TempIn \in tts.temp
          /\ tts' = [tts EXCEPT !.unlinkIn = "ok", !.temp = Unlinked(@, TempIn),
                                !.pc = "unlinkOut"]
       \/ tts' = [tts EXCEPT !.unlinkIn = "fail", !.pc = "unlinkOut"]
    /\ UNCHANGED nonTtsVars

\* finally: fs.unlink(tempOutPath).catch(console.error); then the exception
\* of the try block, if any, goes on to the catch of the tool.
ConvertUnlinkOut ==
    /\ tts.pc = "unlinkOut"
    /\ LET after(t) == IF t.pending # <<>> THEN OnCloudError(t, t.pending)
                       ELSE [t EXCEPT !.pc = "toWav"]
       IN  \/ /\ TempOut \in tts.temp
              /\ tts' = after([tts EXCEPT !.unlinkOut = "ok",
                                          !.temp = Unlinked(@, TempOut)])
           \/ tts' = after([tts EXCEPT !.unlinkOut = "fail"])
    /\ UNCHANGED nonTtsVars

LocalStart ==
    /\ tts.pc = "idle"
    /\ tts' = [tts EXCEPT !.pc = "localGenerate", !.backend = "local"]
    /\ UNCHANGED nonTtsVars

\* ai.generate with responseModalities AUDIO, and the test of media
LocalGenerate ==
    /\ tts.pc = "localGenerate"
    /\ \/ \E samples \in PcmData :
              tts' = [tts EXCEPT !.media = "returned", !.pcm = samples, !.pc = "toWav"]
       \/ tts' = OnLocalError([tts EXCEPT !.media = "missing"],
                              <<"No media returned from local TTS model.">>)
       \/ tts' = OnLocalError([tts EXCEPT !.media = "reject"], <<"model not found">>)
    /\ UNCHANGED nonTtsVars

\* return await toWav(buffer), inside the try block of either tool
ToWavStep ==
    /\ tts.pc = "toWav"
    /\ \/ tts' = [tts EXCEPT !.pc = "done",
                              !.wave = ToWav(tts.pcm, WavChannels, WavRate, WavSampleWidth)]
       \/ tts' = IF tts.backend = "cloud"
                 THEN OnCloudError(tts, <<"write after end">>)
                 ELSE OnLocalError(tts, <<"write after end">>)
    /\ UNCHANGED nonTtsVars

InitSynthesis ==
    /\ registry = NotFollowed
    /\ player = NotFollowed
    /\ tts = NoTts
    /\ InitFlowState({[topic |-> <<"W", "a", "r">>, rounds |-> 1,
                 participants |-> <<"tesla", "nietzsche">>, generateAudio |-> TRUE]},
               NoPeer)
    /\ rawRounds = JsNumber(req.rounds)

NextSynthesis ==
    \/ CloudStart
    \/ CloudCheckKey
    \/ CloudFetch
    \/ ConvertWriteInput
    \/ ConvertFfmpeg
    \/ ConvertRead
    \/ ConvertUnlinkIn
    \/ ConvertUnlinkOut
    \/ LocalStart
    \/ LocalGenerate
    \/ ToWavStep

SpecSynthesis == InitSynthesis /\ [][NextSynthesis]_vars

(***************************************************************************)
(* A run during which process.env.USE_LOCAL_TTS is assigned.               *)
(***************************************************************************)
MaxEnvTurns == 2

EnvAssignments == {"true", "false", "TRUE", Undefined}

\* Some other code of the process, or a reloaded configuration, sets the flag.
SetEnv ==
    /\ \E e \in EnvAssignments \ {env} : env' = e
    /\ UNCHANGED <<req, player, rawRounds, registry, tts, prompt, peer, pc, useLocalTTS, round,
                   order, pos, transcript, turnData, audioBase64, podcastFile, duration,
                   files, manifest, calls, log, synthFailed, error, result, envelope>>

InitEnvChange == InitWith(Requests(RegisteredIds \cup UnknownIds, MaxEnvTurns), NoPeer)

NextEnvChange ==
    \/ Next
    \/ SetEnv

SpecEnvChange == InitEnvChange /\ [][NextEnvChange]_vars

(***************************************************************************)
(* Runs of two rounds, for the speaking order of successive rounds.        *)
(***************************************************************************)
MaxShuffleTurns == 4

InitShuffle == InitWith(Requests(RegisteredIds \cup UnknownIds, MaxShuffleTurns), NoPeer)

SpecShuffle == InitShuffle /\ [][Next]_vars

(***************************************************************************)
(* A run that comes after another one: the earlier run has ended and may   *)
(* have left its first clip and its podcast in public/.                    *)
(***************************************************************************)
MaxSequenceTurns == 2

EarlierRun == [pc |-> "earlier", turns |-> 0, wrote |-> {}]

\* What the earlier run left behind.
LeftBehind == {ClipName(0), FinalDebate}

\* The earlier run assembled a podcast before this one starts.
EarlierRunAssembled ==
    /\ pc = "createDebate"
    /\ peer.pc = "earlier"
    /\ files' = files \cup LeftBehind
    /\ peer' = [peer EXCEPT !.pc = "over", !.turns = 1, !.wrote = LeftBehind]
    /\ UNCHANGED <<req, player, rawRounds, registry, tts, env, prompt, pc, useLocalTTS, round, order,
                   pos, transcript, turnData, audioBase64, podcastFile, duration, manifest,
                   calls, log, synthFailed, error, result, envelope>>

InitSequence ==
    InitWith(Requests(RegisteredIds \cup UnknownIds, MaxSequenceTurns), EarlierRun)

NextSequence ==
    \/ EarlierRunAssembled
    \/ Next

SpecSequence == InitSequence /\ [][NextSequence]_vars

(***************************************************************************)
(* Debates of up to three rounds between registered personas, on one topic *)
(* and with the backend the environment names first.                       *)
(***************************************************************************)
MaxDebateTurns == 6

InitDebate ==
    /\ InitWith({r \in Requests(RegisteredIds, MaxDebateTurns) : r.topic = <<"W", "a", "r">>},
                NoPeer)
    /\ env = "true"

SpecDebate == InitDebate /\ [][Next]_vars

(***************************************************************************)
(* Runs in which every awaited call settles: whenever a step of the run is *)
(* possible, one is eventually taken.                                      *)
(***************************************************************************)
MaxFairTurns == 3

\* The requests the flow accepts, on one topic.
FairRequests ==
    {r \in Requests(RegisteredIds, MaxFairTurns) :
        r.topic = <<"W", "a", "r">> /\ FlowInputOk(r)}

InitFair == InitWith(FairRequests, NoPeer) /\ env = "true"

SpecFair == InitFair /\ [][Next]_vars /\ WF_vars(Next)

(***************************************************************************)
(* The variant of the flow that always generates audio.  Its input has no  *)
(* generateAudio field: every turn is synthesised, which is the loop of    *)
(* the flow above with the flag set.                                       *)
(***************************************************************************)
MaxVariantTurns == 4

\* The turn is left with continue: the loop goes to the next participant, or
\* to the next round after the last one, and nothing is pushed.
ContinueLoop ==
    /\ turnData' = NoTurn
    /\ IF pos < Len(order)
       THEN /\ pos' = pos + 1
            /\ pc' = "generate"
            /\ UNCHANGED round
       ELSE /\ round' = round + 1
            /\ pc' = "round"
            /\ UNCHANGED pos

\* The synthesis call in its try block, the catch with continue and the
\* test for an empty result with continue.
SynthesizeAlways ==
    /\ pc = "synth"
    /\ calls' = [calls EXCEPT ![Backend(useLocalTTS)] = @ + 1]
    /\ \/ /\ log' = [log EXCEPT !.synth = "ok"]
          /\ audioBase64' = Wave
          /\ pc' = "writeClip"
          /\ UNCHANGED <<synthFailed, turnData, pos, round>>
       \/ /\ log' = [log EXCEPT !.synth = "empty"]
          /\ audioBase64' = ""
          /\ synthFailed' = NoteSynthFailed(synthFailed, Len(transcript))
          /\ ContinueLoop
       \/ /\ log' = [log EXCEPT !.synth = "throw"]
          /\ audioBase64' = Undefined
          /\ synthFailed' = NoteSynthFailed(synthFailed, Len(transcript))
          /\ ContinueLoop
    /\ UNCHANGED <<req, player, rawRounds, registry, tts, env, prompt, peer, useLocalTTS, order,
                   transcript, podcastFile, duration, files, manifest, error, result,
                   envelope>>

\* await fs.writeFile(audioFilePath, buffer) stands outside the try block: a
\* failure leaves the flow.
WriteClipAlways ==
    /\ pc = "writeClip"
    /\ calls' = [calls EXCEPT !.clipWrite = @ + 1]
    /\ \/ /\ log' = [log EXCEPT !.clip = "ok"]
          /\ files' = files \cup {ClipName(ClipIndex(transcript, round))}
          /\ Mine({ClipName(ClipIndex(transcript, round))})
          /\ turnData' = [turnData EXCEPT
                              !.audioFile = ClipName(ClipIndex(transcript, round))]
          /\ pc' = "push"
          /\ UNCHANGED error
       \/ /\ log' = [log EXCEPT !.clip = "fail"]
          /\ error' = <<"writeFile failed: ", ClipName(ClipIndex(transcript, round))>>
          /\ pc' = "thrown"
          /\ UNCHANGED <<files, turnData, peer>>
    /\ UNCHANGED <<req, player, rawRounds, registry, tts, env, prompt, useLocalTTS, round, order, pos,
                   transcript, audioBase64, podcastFile, duration, manifest, synthFailed,
                   result, envelope>>

\* After the loop the podcast is named whatever the transcript holds.
EndRoundsAlways ==
    /\ pc = "round"
    /\ ~RoundsRemain(round, req.rounds)
    /\ podcastFile' = "final_debate.mp3"
    /\ pc' = "writeManifest"
    /\ UNCHANGED <<req, player, rawRounds, registry, tts, env, prompt, peer, useLocalTTS, round, order,
                   pos, transcript, turnData, audioBase64, duration, files, manifest,
                   calls, log, synthFailed, error, result, envelope>>

\* The manifest lists the audio file of every turn of the transcript; the
\* write is awaited outside the try block.
WriteManifestAlways ==
    /\ pc = "writeManifest"
    /\ calls' = [calls EXCEPT !.manifestWrite = @ + 1]
    /\ \/ /\ log' = [log EXCEPT !.manifest = "ok"]
          /\ manifest' = ConcatListContent(transcript)
          /\ files' = files \cup {ConcatList}
          /\ Mine({ConcatList})
          /\ pc' = "unlinkPodcast"
          /\ UNCHANGED error
       \/ /\ log' = [log EXCEPT !.manifest = "fail"]
          /\ error' = <<"writeFile failed: ", "concat_list.txt">>
          /\ pc' = "thrown"
          /\ UNCHANGED <<manifest, files, peer>>
    /\ UNCHANGED <<req, player, rawRounds, registry, tts, env, prompt, useLocalTTS, round, order, pos,
                   transcript, turnData, audioBase64, podcastFile, duration, synthFailed,
                   result, envelope>>

\* execAsync(command): the command succeeds only on a manifest that is there
\* and lists a clip; its failure is logged and thrown again, after the
\* finally block has run.
FfmpegAlways ==
    /\ pc = "ffmpeg"
    /\ calls' = [calls EXCEPT !.ffmpeg = @ + 1]
    /\ \/ /\ ConcatList \in files
          /\ Len(manifest) > 0
          /\ log' = [log EXCEPT !.ffmpeg = "ok"]
          /\ files' = files \cup {FinalDebate}
          /\ Mine({FinalDebate})
          /\ UNCHANGED error
       \/ /\ log' = [log EXCEPT !.ffmpeg = "fail"]
          /\ \/ UNCHANGED <<files, peer>>
             \/ /\ files' = files \cup {FinalDebate}
                /\ Mine({FinalDebate})
          /\ error' = <<"Command failed: ffmpeg">>
    /\ pc' = "unlinkManifest"
    /\ UNCHANGED <<req, player, rawRounds, registry, tts, env, prompt, useLocalTTS, round, order, pos,
                   transcript, turnData, audioBase64, podcastFile, duration, manifest,
                   synthFailed, result, envelope>>

\* finally { await fs.unlink(concatListPath) }: a failure of the removal
\* leaves the flow; otherwise the failure of the command does.
UnlinkManifestAlways ==
    /\ pc = "unlinkManifest"
    /\ calls' = [calls EXCEPT !.unlink = @ + 1]
    /\ \/ /\ log' = [log EXCEPT !.unlinkManifest = "ok"]
          /\ files' = files \ {ConcatList}
          /\ Mine({ConcatList})
          /\ pc' = IF log.ffmpeg = "fail" THEN "thrown" ELSE "return"
          /\ UNCHANGED error
       \/ /\ log' = [log EXCEPT !.unlinkManifest = "fail"]
          /\ error' = <<"unlink failed: ", "concat_list.txt">>
          /\ pc' = "thrown"
          /\ UNCHANGED <<files, peer>>
    /\ UNCHANGED <<req, player, rawRounds, registry, tts, env, prompt, useLocalTTS, round, order, pos,
                   transcript, turnData, audioBase64, podcastFile, duration, manifest,
                   synthFailed, result, envelope>>

\* The value returned by the variant: duration is the constant '12:45' and
\* there is no audioGenerated field.
ReturnResultAlways ==
    /\ pc = "return"
    /\ duration' = "12:45"
    /\ result' = [status |-> "success",
                  data |-> [transcript |-> transcript, podcast |-> podcastFile,
                            duration |-> "12:45"]]
    /\ pc' = "returned"
    /\ UNCHANGED <<req, player, rawRounds, registry, tts, env, prompt, peer, useLocalTTS, round, order,
                   pos, transcript, turnData, audioBase64, podcastFile, files, manifest,
                   calls, log, synthFailed, error, envelope>>

InitAlwaysAudio ==
    /\ InitWith(Requests(RegisteredIds \cup UnknownIds, MaxVariantTurns), NoPeer)
    /\ req.generateAudio

NextAlwaysAudio ==
    \/ CreateDebate
    \/ ValidateParticipants
    \/ StartRound
    \/ Generate
    \/ SynthesizeAlways
    \/ WriteClipAlways
    \/ PushTurn
    \/ EndRoundsAlways
    \/ WriteManifestAlways
    \/ UnlinkPodcast
    \/ FfmpegAlways
    \/ UnlinkManifestAlways
    \/ ReturnResultAlways
    \/ CreateDebateReturn
    \/ CreateDebateCatch

SpecAlwaysAudio == InitAlwaysAudio /\ [][NextAlwaysAudio]_vars

(***************************************************************************)
(* Two calls of convertMp3ToPcm, made by two runs of the flow in the same  *)
(* server process, so with the same working directory and the same clock.  *)
(* disk holds the temporary files with the call that wrote their content;  *)
(* crossed notes every read, overwrite and removal of a file whose content *)
(* the other call wrote.                                                   *)
(***************************************************************************)
MaxClock == 2

Converters == {"a", "b"}

\* `temp-in-${Date.now()}.mp3` and `temp-out-${Date.now()}.s16le`
TempInAt(now) == <<"temp-in-", now, ".mp3">>
TempOutAt(now) == <<"temp-out-", now, ".s16le">>

NoConvert == [pc |-> "idle", tempInPath |-> <<>>, tempOutPath |-> <<>>, pcmOf |-> "none"]

NoConverts ==
    [now |-> 1, call |-> [c \in Converters |-> NoConvert], disk |-> {},
     overlap |-> FALSE, crossed |-> {}]

\* The call whose content the file at path holds, "none" if there is no file.
OwnerOf(disk, path) ==
    IF \E f \in disk : f.path = path
    THEN (CHOOSE f \in disk : f.path = path).owner
    ELSE "none"

Written(disk, path, c) ==
    {f \in disk : f.path # path} \cup {[path |-> path, owner |-> c]}

Removed(disk, path) == {f \in disk : f.path # path}

\* What the call c does to the file at path, if the other call wrote it.
Crossing(t, c, path, what) ==
    IF OwnerOf(t.disk, path) \notin {"none", c}
    THEN t.crossed \cup {<<c, what, path>>}
    ELSE t.crossed

\* Date.now() moves on.
ClockTick ==
    /\ tts.now < MaxClock
    /\ tts' = [tts EXCEPT !.now = @ + 1]
    /\ UNCHANGED nonTtsVars

\* The call c is entered: its two paths are made of two readings of the
\* clock, between which the millisecond may change.
ConvertEnter(c) ==
    /\ tts.call[c].pc = "idle"
    /\ \E later \in {tts.now, tts.now + 1} \cap (1..MaxClock) :
           tts' = [tts EXCEPT
                      !.now = later,
                      !.call[c] = [pc |-> "write", tempInPath |-> TempInAt(tts.now),
                                   tempOutPath |-> TempOutAt(later), pcmOf |-> "none"],
                      !.overlap = @ \/ \E d \in Converters \ {c} :
                                          tts.call[d].pc \notin {"idle", "done"}]
    /\ UNCHANGED nonTtsVars

\* fs.writeFile(tempInPath, mp3Data)
ConvertWrites(c) ==
    /\ tts.call[c].pc = "write"
    /\ \/ tts' = [tts EXCEPT
                      !.disk = Written(@, tts.call[c].tempInPath, c),
                      !.crossed = Crossing(tts, c, tts.call[c].tempInPath, "overwrite"),
                      !.call[c].pc = "ffmpeg"]
       \/ tts' = [tts EXCEPT !.call[c].pc = "unlinkIn"]
    /\ UNCHANGED nonTtsVars

\* execAsync(ffmpeg -i tempInPath ... tempOutPath): the command reads the
\* input file and writes the output file; it fails if the input is gone, and
\* it may fail for any other reason.
ConvertTranscodes(c) ==
    /\ tts.call[c].pc = "ffmpeg"
    /\ \/ /\ OwnerOf(tts.disk, tts.call[c].tempInPath) # "none"
          /\ tts' = [tts EXCEPT
                         !.disk = Written(@, tts.call[c].tempOutPath, c),
                         !.crossed =
                             Crossing(tts, c, tts.call[c].tempInPath, "read")
                                 \cup Crossing(tts, c, tts.call[c].tempOutPath, "overwrite"),
                         !.call[c].pc = "read"]
       \/ tts' = [tts EXCEPT !.call[c].pc = "unlinkIn"]
    /\ UNCHANGED nonTtsVars

\* fs.readFile(tempOutPath): the samples are those of the call that wrote
\* the file last.
ConvertReads(c) ==
    /\ tts.call[c].pc = "read"
    /\ \/ /\ OwnerOf(tts.disk, tts.call[c].tempOutPath) # "none"
          /\ tts' = [tts EXCEPT
                         !.crossed = Crossing(tts, c, tts.call[c].tempOutPath, "read"),
                         !.call[c].pcmOf = OwnerOf(tts.disk, tts.call[c].tempOutPath),
                         !.call[c].pc = "unlinkIn"]
       \/ tts' = [tts EXCEPT !.call[c].pc = "unlinkIn"]
    /\ UNCHANGED nonTtsVars

\* finally: fs.unlink(tempInPath).catch(console.error)
ConvertUnlinksIn(c) ==
    /\ tts.call[c].pc = "unlinkIn"
    /\ \/ /\ OwnerOf(tts.disk, tts.call[c].tempInPath) # "none"
          /\ tts' = [tts EXCEPT
                         !.disk = Removed(@, tts.call[c].tempInPath),
                         !.crossed = Crossing(tts, c, tts.call[c].tempInPath, "delete"),
                         !.call[c].pc = "unlinkOut"]
       \/ tts' = [tts EXCEPT !.call[c].pc = "unlinkOut"]
    /\ UNCHANGED nonTtsVars

\* finally: fs.unlink(tempOutPath).catch(console.error)
ConvertUnlinksOut(c) ==
    /\ tts.call[c].pc = "unlinkOut"
    /\ \/ /\ OwnerOf(tts.disk, tts.call[c].tempOutPath) # "none"
          /\ tts' = [tts EXCEPT
                         !.disk = Removed(@, tts.call[c].tempOutPath),
                         !.crossed = Crossing(tts, c, tts.call[c].tempOutPath, "delete"),
                         !.call[c].pc = "done"]
       \/ tts' = [tts EXCEPT !.call[c].pc = "done"]
    /\ UNCHANGED nonTtsVars

InitOverlap ==
    /\ InitFlowState({[topic |-> <<"W", "a", "r">>, rounds |-> 1,
                       participants |-> <<"tesla", "nietzsche">>, generateAudio |-> TRUE]},
                     NoPeer)
    /\ rawRounds = JsNumber(req.rounds)
    /\ registry = NotFollowed
    /\ player = NotFollowed
    /\ tts = NoConverts

NextOverlap ==
    \/ ClockTick
    \/ \E c \in Converters : ConvertEnter(c)
    \/ \E c \in Converters : ConvertWrites(c)
    \/ \E c \in Converters : ConvertTranscodes(c)
    \/ \E c \in Converters : ConvertReads(c)
    \/ \E c \in Converters : ConvertUnlinksIn(c)
    \/ \E c \in Converters : ConvertUnlinksOut(c)

SpecOverlap == InitOverlap /\ [][NextOverlap]_vars

(***************************************************************************)
(* toWav of the earlier, cloud-only version of the flow, called once per   *)
(* turn: it writes temp.pcm, has ffmpeg make temp.wav of it and returns    *)
(* that file base64-encoded.                                               *)
(***************************************************************************)
MaxLegacyCalls == 3

TempPcm == <<"temp.pcm">>
TempWav == <<"temp.wav">>

\* The audio the ElevenLabs endpoint answered with.
Mp3Inputs == {<<"ID3", "f1">>, <<"ID3", "f1", "f2">>}

\* ffmpeg -f mp3 -i temp.pcm -acodec pcm_s16le -ac 1 -ar 24000 temp.wav
WavOf(mp3Data) == <<"RIFF">> \o Tail(mp3Data)

\* fileContent.toString('base64')
Base64(bytes) == <<"base64">> \o bytes

NoLegacyCall ==
    [pc |-> "idle", count |-> 0, temp |-> {}, mp3 |-> <<>>, written |-> "none",
     ffmpeg |-> "none", read |-> "none", content |-> <<>>, pending |-> <<>>,
     value |-> <<>>, error |-> <<>>]

\* The synthesis tool calls toWav(buffer) for the audio of a turn.
LegacyToWav ==
    /\ tts.pc \in {"idle", "returned", "thrown"}
    /\ tts.count < MaxLegacyCalls
    /\ \E mp3Data \in Mp3Inputs :
           tts' = [NoLegacyCall EXCEPT !.pc = "write", !.count = tts.count + 1,
                                       !.temp = tts.temp, !.mp3 = mp3Data]
    /\ UNCHANGED nonTtsVars

\* fs.writeFile(tempPcmPath, mp3Data).  A write that fails may have created
\* the file.
LegacyWriteInput ==
    /\ tts.pc = "write"
    /\ \/ tts' = [tts EXCEPT !.written = "ok", !.temp = @ \cup {TempPcm}, !.pc = "ffmpeg"]
       \/ \E left \in SUBSET {TempPcm} :
              tts' = [tts EXCEPT !.written = "fail", !.temp = @ \cup left,
                                 !.pending = <<"ENOSPC: no space left on device">>,
                                 !.pc = "finally"]
    /\ UNCHANGED nonTtsVars

\* execAsync(ffmpeg ...).  A command that fails may have created its output
\* file.
LegacyFfmpeg ==
    /\ tts.pc = "ffmpeg"
    /\ \/ tts' = [tts EXCEPT !.ffmpeg = "ok", !.temp = @ \cup {TempWav}, !.pc = "read"]
       \/ \E left \in SUBSET {TempWav} :
              tts' = [tts EXCEPT !.ffmpeg = "fail", !.temp = @ \cup left,
                                 !.pending = <<"Command failed: ffmpeg">>,
                                 !.pc = "finally"]
    /\ UNCHANGED nonTtsVars

\* fs.readFile(tempWavPath)
LegacyRead ==
    /\ tts.pc = "read"
    /\ \/ tts' = [tts EXCEPT !.read = "ok", !.content = WavOf(tts.mp3), !.pc = "finally"]
       \/ tts' = [tts EXCEPT !.read = "fail", !.pending = <<"EIO: i/o error">>,
                              !.pc = "finally"]
    /\ UNCHANGED nonTtsVars

\* The finally block, whose two unlink calls are commented out; then the
\* value is returned or the exception caught is thrown again.
LegacyFinally ==
    /\ tts.pc = "finally"
    /\ tts' = IF tts.pending = <<>>
              THEN [tts EXCEPT !.pc = "returned", !.value = Base64(tts.content)]
              ELSE [tts EXCEPT !.pc = "thrown", !.error = tts.pending]
    /\ UNCHANGED nonTtsVars

InitLegacyWav ==
    /\ InitFlowState({[topic |-> <<"W", "a", "r">>, rounds |-> 1,
                       participants |-> <<"tesla", "nietzsche">>, generateAudio |-> TRUE]},
                     NoPeer)
    /\ rawRounds = JsNumber(req.rounds)
    /\ registry = NotFollowed
    /\ player = NotFollowed
    /\ tts = NoLegacyCall

NextLegacyWav ==
    \/ LegacyToWav
    \/ LegacyWriteInput
    \/ LegacyFfmpeg
    \/ LegacyRead
    \/ LegacyFinally

SpecLegacyWav == InitLegacyWav /\ [][NextLegacyWav]_vars

(***************************************************************************)
(* The DebateResult component: the clips of the transcript, one Audio      *)
(* element per clip, the state activeAudioFile, the clicks on the play     *)
(* buttons and the 'ended' events of the elements.                         *)
(***************************************************************************)
MaxClips == 3

Null == <<"null">>

\* The audioFile values of data.transcript.
ClipFiles == {ClipName(k) : k \in 0..(MaxClips - 1)}

\* The component after its effect ran: an element per clip, none playing,
\* activeAudioFile null.  last is the event handled last: the click or the
\* 'ended' event, its clip, activeAudioFile as the handler found it, and
\* for a click on which element play() was called.
NoEvent == [kind |-> "none", clip |-> Null, found |-> Null, played |-> Null]

Mounted ==
    [activeAudioFile |-> Null, playing |-> {}, currentTime |-> [f \in ClipFiles |-> 0],
     started |-> Null, last |-> NoEvent]

\* Faulty variant of Paused: the element goes on playing.
PausedNothing(playing, f) == playing

\* audioRefs.current[f].pause()
Paused(playing, f) == playing \ {f}

\* audio.currentTime = 0
Rewound(time, f) == [time EXCEPT ![f] = 0]

\* A click on the play button of the clip f: togglePlay(f).  play() returns
\* a promise that is not awaited: the element starts playing, or the promise
\* rejects (the file cannot be loaded) and the element stays paused.
TogglePlay(f) ==
    LET wasPlaying == player.activeAudioFile = f
        paused == IF player.activeAudioFile # Null
                  THEN Paused(player.playing, player.activeAudioFile)
                  ELSE player.playing
        event == [kind |-> "click", clip |-> f, found |-> player.activeAudioFile,
                  played |-> IF wasPlaying THEN Null ELSE f]
    IN  /\ player.last.kind # "unmounted"
        /\ IF ~wasPlaying
           THEN \E ok \in BOOLEAN :
                    player' = [player EXCEPT
                                  !.playing = IF ok THEN paused \cup {f} ELSE paused,
                                  !.currentTime = Rewound(@, f),
                                  !.activeAudioFile = f,
                                  !.started = f,
                                  !.last = event]
           ELSE player' = [player EXCEPT
                              !.playing = paused,
                              !.activeAudioFile = Null,
                              !.last = event]
        /\ UNCHANGED <<req, rawRounds, registry, tts, env, prompt, peer, pc, useLocalTTS,
                       round, order, pos, transcript, turnData, audioBase64, podcastFile,
                       duration, files, manifest, calls, log, synthFailed, error, result,
                       envelope>>

\* Playback of the clip f goes on: its position is no longer 0.
Playback(f) ==
    /\ f \in player.playing
    /\ player.currentTime[f] = 0
    /\ player' = [player EXCEPT !.currentTime[f] = 1]
    /\ UNCHANGED <<req, rawRounds, registry, tts, env, prompt, peer, pc, useLocalTTS,
                   round, order, pos, transcript, turnData, audioBase64, podcastFile,
                   duration, files, manifest, calls, log, synthFailed, error, result,
                   envelope>>

\* The clip f reaches its end: the element stops and its 'ended' listener
\* runs setActiveAudioFile(null).
Ended(f) ==
    /\ f \in player.playing
    /\ player.currentTime[f] > 0
    /\ player' = [player EXCEPT
                      !.playing = @ \ {f},
                      !.activeAudioFile = Null,
                      !.last = [kind |-> "ended", clip |-> f,
                                found |-> player.activeAudioFile, played |-> Null]]
    /\ UNCHANGED <<req, rawRounds, registry, tts, env, prompt, peer, pc, useLocalTTS,
                   round, order, pos, transcript, turnData, audioBase64, podcastFile,
                   duration, files, manifest, calls, log, synthFailed, error, result,
                   envelope>>

InitPlayer ==
    /\ InitFlowState({[topic |-> <<"W", "a", "r">>, rounds |-> 1,
                       participants |-> <<"tesla", "nietzsche">>, generateAudio |-> TRUE]},
                     NoPeer)
    /\ rawRounds = JsNumber(req.rounds)
    /\ registry = NotFollowed
    /\ tts = NotFollowed
    /\ player = Mounted

NextPlayer ==
    \/ \E f \in ClipFiles : TogglePlay(f)
    \/ \E f \in ClipFiles : Playback(f)
    \/ \E f \in ClipFiles : Ended(f)

SpecPlayer == InitPlayer /\ [][NextPlayer]_vars

(***************************************************************************)
(* Properties.                                                             *)
(***************************************************************************)
TurnsAsked == req.rounds * Len(req.participants)

\* The request passed the schema of createDebate and the validation loop.
Admitted == SchemaErrors(req, rawRounds) = <<>> /\ FirstRejected(req.participants) = 0

AfterLoop == {"writeManifest", "unlinkPodcast", "ffmpeg", "unlinkManifest",
              "return", "returned"}

SynthCalls == calls.synthLocal + calls.synthCloud

NoAudioTurns(t) == {k \in 0..(Len(t) - 1) : ~HasAudio(t[k + 1])}

\* C1: a request naming at least one ID that is not a key of the persona
\* registry fails before any text-generation call, synthesis call, artifact
\* or manifest write or transcoding invocation is made.
C1_ValidationGate ==
    (\E i \in 1..Len(req.participants) : req.participants[i] \notin DOMAIN personas)
        => /\ calls = NoCalls
           /\ files = {}
           /\ result.status = "none"
           /\ pc = "done" => envelope.status = "error"

\* C2: when every text-generation call succeeds, the transcript the run ends
\* its loop with and returns has exactly rounds x participants turns, with
\* or without audio and whatever the synthesis calls did; only a failed
\* generation call ends the loop early.
C2_TurnCount ==
    /\ pc \in AfterLoop => Len(transcript) = TurnsAsked
    /\ result.status = "success" => Len(result.data.transcript) = TurnsAsked
    /\ envelope.status = "success" => Len(envelope.data.transcript) = TurnsAsked
    /\ (pc = "thrown" /\ Admitted /\ Len(transcript) < TurnsAsked)
           => log.generate = "fail"

C2_Witness ==
    /\ envelope.status = "success"
    /\ req.rounds = 3
    /\ req.generateAudio
    /\ HasAudio(envelope.data.transcript[1])
    /\ ~HasAudio(envelope.data.transcript[2])

\* C3: with generateAudio, when artifact persistence succeeds, a returned
\* result has status success and all rounds x participants turns, the turns
\* without audioFile are exactly the turns whose synthesis call threw or
\* returned an empty result, and no synthesis failure leaves the flow.
C3_AudioIsolation ==
    /\ (req.generateAudio /\ result.status # "none" /\ synthFailed # Untracked)
           => /\ result.status = "success"
              /\ Len(result.data.transcript) = TurnsAsked
              /\ NoAudioTurns(result.data.transcript) = synthFailed
    /\ pc = "thrown" => log.synth = "none"
    /\ log.synth \in {"empty", "throw"} => pc = "push" /\ error = NoError

C3_Witness ==
    /\ req.generateAudio
    /\ result.status = "success"
    /\ synthFailed = {1, 2}
    /\ TurnsAsked = 4

\* C4: if every text-generation call succeeds the caller receives a success
\* envelope with the full transcript, whatever fails in the audio pipeline.
C4_TextNeverSacrificed ==
    (pc = "done" /\ Admitted /\ log.generate # "fail")
        => /\ envelope.status = "success"
           /\ Len(envelope.data.transcript) = TurnsAsked

\* C5: the manifest lists exactly the artifacts of the turns that have an
\* audioFile, in transcript order, one line per such turn and none for a
\* turn without audio.
C5_ConcatOrder ==
    LET withAudio == {k \in 1..Len(transcript) : HasAudio(transcript[k])}
    IN  log.manifest = "ok"
            => /\ Len(manifest) = Cardinality(withAudio)
               /\ \A k \in withAudio :
                      manifest[Cardinality({j \in withAudio : j <= k})]
                          = <<"file '", "public", ClipName(k - 1), "'">>

C5_Witness ==
    /\ log.manifest = "ok"
    /\ Len(transcript) = 3
    /\ HasAudio(transcript[1])
    /\ ~HasAudio(transcript[2])
    /\ HasAudio(transcript[3])
    /\ Len(manifest) = 2

\* C6: with generateAudio = false no synthesis backend is invoked, no
\* artifact and no manifest is written, ffmpeg is never invoked, and the
\* result has no turn with an audioFile and podcast = ''.
C6_NoAudioRequest ==
    ~req.generateAudio
        => /\ SynthCalls = 0
           /\ calls.clipWrite = 0
           /\ calls.manifestWrite = 0
           /\ calls.ffmpeg = 0
           /\ files = {}
           /\ result.status = "success"
                  => /\ NoAudioTurns(result.data.transcript)
                            = 0..(Len(result.data.transcript) - 1)
                     /\ result.data.podcast = ""

C6_Witness ==
    /\ ~req.generateAudio
    /\ result.status = "success"
    /\ Len(result.data.transcript) = 6

AssemblyFinished ==
    log.ffmpeg # "none" /\ pc \in {"return", "returned", "done"}

C8_AllSynthesisFails ==
    (/\ req.generateAudio
     /\ pc \notin {"createDebate", "validate"}
     /\ Len(transcript) = TurnsAsked
     /\ synthFailed = 0..(TurnsAsked - 1)
     /\ Admitted)
        => /\ pc \in {"round", "return", "returned", "done"}
           /\ calls.manifestWrite = 0
           /\ calls.ffmpeg = 0
           /\ pc # "round" => podcastFile = "" /\ duration = "0:00"
           /\ pc \in {"returned", "done"}
                  => /\ result.status = "success"
                     /\ result.data.transcript = transcript
                     /\ result.data.podcast = ""
                     /\ result.data.duration = "0:00"
           /\ pc = "done"
                  => envelope.status = "success" /\ envelope.data = result.data

C8_Witness ==
    /\ req.generateAudio
    /\ pc = "done"
    /\ envelope.status = "success"
    /\ TurnsAsked = 4
    /\ synthFailed = 0..3

\* C9: when ffmpeg fails the run does not abort: it returns status success
\* with podcast reset to '', and the transcript, every audioFile included,
\* is what it was when assembly started.
C9_AssemblyFailure ==
    /\ [](log.ffmpeg = "fail"
            => /\ pc \in {"unlinkManifest", "return", "returned", "done"}
               /\ error = NoError
               /\ podcastFile = ""
               /\ pc \in {"returned", "done"}
                      => /\ result.status = "success"
                         /\ result.data.podcast = ""
                         /\ result.data.transcript = transcript
               /\ pc = "done" => envelope.status = "success")
    /\ [][(pc \in AfterLoop) => (transcript' = transcript)]_vars

C9_Witness ==
    /\ log.ffmpeg = "fail"
    /\ pc = "done"
    /\ envelope.status = "success"
    /\ \E k \in 1..Len(transcript) : HasAudio(envelope.data.transcript[k])

\* C10: when a text-generation call fails the run aborts at that turn: the
\* turn is not appended, no further generation or synthesis call is made,
\* no assembly is attempted, no result is returned, and createDebate
\* returns an error envelope.
C10_GenerationFatal ==
    log.generate = "fail"
        => /\ pc \in {"thrown", "done"}
           /\ calls.generate = Len(transcript) + 1
           /\ SynthCalls <= Len(transcript)
           /\ calls.manifestWrite = 0
           /\ calls.ffmpeg = 0
           /\ result.status = "none"
           /\ pc = "done" => envelope.status = "error" /\ envelope.message = error

C10_Witness ==
    /\ log.generate = "fail"
    /\ pc = "done"
    /\ envelope.status = "error"
    /\ req.generateAudio
    /\ Len(transcript) = 3

\* C11: when the text-generation backend returns empty output for a turn,
\* the run fails with a generation error and aborts: no turn with empty text
\* is in the turn being built past the generation step, in the transcript or
\* in a returned result.
C11_EmptyOutputFatal ==
    /\ (log.generate = "ok" /\ turnData.text = "") => pc = "thrown"
    /\ \A i \in 1..Len(transcript) : transcript[i].text # ""
    /\ result.status = "success"
           => \A i \in 1..Len(result.data.transcript) :
                  result.data.transcript[i].text # ""

\* C17: two runs with generateAudio executing at the same time never write
\* the same artifact path: when a run assembles, every artifact its manifest
\* lists exists and holds the audio that this run wrote.
C17_ArtifactsOwn ==
    pc \in {"unlinkPodcast", "ffmpeg"}
        => \A i \in 1..Len(transcript) :
               HasAudio(transcript[i])
                   => /\ transcript[i].audioFile \in files
                      /\ transcript[i].audioFile \notin peer.wrote

\* C18: when two runs assemble at the same time neither overwrites or
\* deletes the manifest of the other: at its ffmpeg call a run finds the
\* concat list that it wrote.
C18_ManifestOwn ==
    (pc = "ffmpeg" /\ log.manifest = "ok")
        => /\ ConcatList \in files
           /\ ConcatList \notin peer.wrote

\* The index in the transcript of the turn the last ai.generate call was for.
PromptedIndex == calls.generate - 1

\* C12: the turns of a run execute one after the other: the synthesis call of
\* a turn begins only after the text-generation call of that turn completed,
\* the prompt of a turn is built only after every earlier turn was appended,
\* and a generation call begins only when no call of an earlier turn is open.
C12_Sequential ==
    /\ calls.generate - Len(transcript) \in {0, 1}
    /\ pc \in {"synth", "writeClip"}
           => /\ log.generate = "ok"
              /\ calls.generate = Len(transcript) + 1
    /\ log.synth # "none" => log.generate = "ok"
    /\ SynthCalls <= calls.generate
    /\ pc = "generate"
           => /\ calls.generate = Len(transcript)
              /\ log.generate = "none" /\ log.synth = "none" /\ log.clip = "none"
    /\ calls.generate >= 1 => Len(prompt.history) = PromptedIndex

C12_Witness ==
    /\ pc = "writeClip"
    /\ calls.generate = 3
    /\ SynthCalls = 3
    /\ Len(transcript) = 2
    /\ Len(prompt.history) = 2

\* C13: the history given to the text-generation call of the turn at
\* transcript index k is the sequence of (speaker, text) pairs of the turns at
\* indices 0..k-1 in emission order, and the round number given is the round
\* that turn belongs to.
C13_PromptHistory ==
    calls.generate >= 1
        => /\ Len(transcript) >= PromptedIndex
           /\ Len(prompt.history) = PromptedIndex
           /\ \A i \in 1..PromptedIndex :
                  prompt.history[i] = <<transcript[i].speaker, transcript[i].text>>
           /\ prompt.round = (PromptedIndex \div Len(req.participants)) + 1
           /\ prompt.topic = req.topic

C13_Witness ==
    /\ pc = "push"
    /\ calls.generate = 4
    /\ Len(req.participants) = 3
    /\ prompt.round = 2
    /\ prompt.history[1][1] # prompt.history[2][1]
    /\ prompt.history[2][1] # prompt.history[3][1]

\* The names under which the participants speak.
SpeakerNames == {PersonaLookup(req.participants[j]).name : j \in 1..Len(req.participants)}

\* How many turns of round r of the transcript t the name n speaks, and how
\* many participants of the request speak under the name n.
SpokenInRound(t, r, n) ==
    Cardinality({j \in 1..Len(req.participants) :
                     t[(r - 1) * Len(req.participants) + j].speaker = n})

ListedAs(n) ==
    Cardinality({j \in 1..Len(req.participants) :
                     PersonaLookup(req.participants[j]).name = n})

\* Every Len(req.participants) turns of t from its start are spoken by a
\* rearrangement of the participants.
RoundsArePermutations(t) ==
    \A r \in 1..(Len(t) \div Len(req.participants)) :
        \A n \in SpeakerNames : SpokenInRound(t, r, n) = ListedAs(n)

\* C14: the turns of round r, at the transcript positions (r-1)P .. rP-1, are
\* spoken by a permutation of the request's participants (every participant
\* speaks once per round, rounds follow each other): so it is whenever a
\* round ends, and in the returned transcript, which has all R rounds.
C14_RoundIsPermutation ==
    /\ pc = "round"
           => /\ RoundsArePermutations(transcript)
              /\ Len(transcript) = (round - 1) * Len(req.participants)
    /\ result.status = "success"
           => /\ RoundsArePermutations(result.data.transcript)
              /\ Len(result.data.transcript) = req.rounds * Len(req.participants)

C14_Witness ==
    /\ result.status = "success"
    /\ req.rounds = 2
    /\ Len(req.participants) = 3
    /\ Cardinality(SpeakerNames) = 2
    /\ result.data.transcript[1].speaker # result.data.transcript[4].speaker

\* C15: the transcript is append-only: each step leaves it as it is or
\* appends the one turn just built, whose generation succeeded; it holds one
\* turn per generation call that succeeded, and no turn is changed or removed.
C15_AppendOnly ==
    /\ [](/\ Len(transcript) <= calls.generate
          /\ pc \in AfterLoop => Len(transcript) = calls.generate)
    /\ [][\/ transcript' = transcript
          \/ /\ pc = "push"
             /\ log.generate = "ok"
             /\ Len(transcript') = Len(transcript) + 1
             /\ \A i \in 1..Len(transcript) : transcript'[i] = transcript[i]
             /\ transcript'[Len(transcript')] = turnData]_vars

C15_Witness ==
    /\ pc = "return"
    /\ Len(transcript) = 3
    /\ transcript[1].speaker # transcript[3].speaker
    /\ HasAudio(transcript[1])
    /\ ~HasAudio(transcript[3])

\* C16: a turn at transcript index k that has audio carries clip_k.wav, so no
\* two turns of a run carry the same audioFile and the names increase along
\* the transcript.
C16_ClipNames ==
    /\ \A i \in 1..Len(transcript) :
           HasAudio(transcript[i]) => transcript[i].audioFile = ClipName(i - 1)
    /\ (pc = "push" /\ HasAudio(turnData))
           => turnData.audioFile = ClipName(Len(transcript))
    /\ \A j \in 2..Len(transcript) :
           HasAudio(transcript[j])
               => \A i \in 1..(j - 1) :
                      HasAudio(transcript[i])
                          => /\ transcript[i].audioFile # transcript[j].audioFile
                             /\ transcript[i].audioFile[2] < transcript[j].audioFile[2]

C16_Witness ==
    /\ Len(transcript) = 4
    /\ req.rounds = 2
    /\ HasAudio(transcript[2])
    /\ ~HasAudio(transcript[3])
    /\ HasAudio(transcript[4])

\* C19: the assembly step runs at most once per run and only after the last
\* turn of the last round was appended; it runs if and only if generateAudio
\* is true and some turn has an audioFile, so ffmpeg is never invoked with an
\* empty manifest.
C19_AssemblyOnce ==
    /\ calls.manifestWrite <= 1
    /\ calls.ffmpeg <= calls.manifestWrite
    /\ calls.manifestWrite = 1
           => /\ Len(transcript) = TurnsAsked
              /\ calls.generate = TurnsAsked
              /\ req.generateAudio
              /\ \E i \in 1..Len(transcript) : HasAudio(transcript[i])
    /\ calls.ffmpeg = 1 => Len(manifest) > 0
    /\ pc \in {"return", "returned"}
           => (calls.manifestWrite = 1
                  <=> (req.generateAudio
                          /\ \E i \in 1..Len(transcript) : HasAudio(transcript[i])))

C19_Witness ==
    /\ pc = "returned"
    /\ calls.ffmpeg = 1
    /\ Len(transcript) = 4
    /\ Len(manifest) = 1

\* C20: in every returned result audioGenerated equals the generateAudio flag
\* of the request, also when no turn got audio and when assembly failed.
C20_AudioGeneratedIsFlag ==
    /\ result.status = "success"
           => result.data.audioGenerated = req.generateAudio
    /\ envelope.status = "success"
           => envelope.data.audioGenerated = req.generateAudio

C20_Witness ==
    /\ envelope.status = "success"
    /\ req.generateAudio
    /\ envelope.data.audioGenerated
    /\ Len(envelope.data.transcript) = 2
    /\ \A i \in 1..Len(envelope.data.transcript) : ~HasAudio(envelope.data.transcript[i])

\* The request as received satisfies what C21 lists: its rounds field is an
\* integer number in 1..5.
RoundsIsIntegerInRange ==
    /\ rawRounds.type = "number"
    /\ rawRounds.exact
    /\ rawRounds.whole \in RoundsMin..RoundsMax

\* Number(rounds) is an integer in 1..5.
RoundsCoercesToIntegerInRange ==
    /\ ~ToNumber(rawRounds).nan
    /\ ToNumber(rawRounds).exact
    /\ ToNumber(rawRounds).whole \in RoundsMin..RoundsMax

TopicAndParticipantsInRange ==
    /\ Len(req.topic) >= TopicMinLen
    /\ Len(req.participants) \in ParticipantsMin..ParticipantsMax

Running == {"createDebate", "validate", "round", "generate", "synth", "writeClip",
            "push", "writeManifest", "unlinkPodcast", "ffmpeg", "unlinkManifest",
            "return", "returned", "thrown"}

\* C22: createDebate never throws: a run is in progress or has ended with an
\* envelope; every failure raised by the flow is caught and returned as
\* {status: 'error', message} with the failure's message, and every result
\* of the flow is returned as {status: 'success', data} with the flow's data.
C22_NeverThrows ==
    /\ pc \in Running \cup {"done"}
    /\ pc = "thrown" => (error # NoError /\ ENABLED CreateDebateCatch)
    /\ pc = "returned" => ENABLED CreateDebateReturn
    /\ pc = "done"
           => /\ envelope.status \in {"success", "error"}
              /\ result.status = "success"
                     => envelope = [status |-> "success", data |-> result.data]
              /\ result.status # "success" => envelope.status = "error"
              /\ error # NoError
                     => envelope = [status |-> "error", message |-> error]

C22_Witness ==
    /\ pc = "done"
    /\ envelope.status = "error"
    /\ envelope.message = <<"Invalid participant ID: ", "unknown">>
    /\ req.participants[1] \in DOMAIN personas

\* C23: addPersona called with an id that is present in the persona store
\* returns an 'already exists' error and leaves the persisted store as it
\* was, also when the id was added by an earlier successful call.
C23_AlreadyExists ==
    (registry.count > 0 /\ AddPersonaErrors(registry.last) = <<>>
        /\ registry.last.id \in DOMAIN registry.before)
        => /\ registry.reply = [status |-> "error",
                                message |-> <<"Participant with ID '", registry.last.id,
                                              "' already exists.">>]
           /\ registry.file = registry.before

\* convertMp3ToPcm was entered and has returned or thrown.
ConvertFinished ==
    tts.backend = "cloud" /\ tts.written # "none" /\ tts.pc \in {"toWav", "done"}

C25_WaveOrError ==
    tts.pc = "done"
        => /\ (tts.wave = NoWave) # (tts.error = <<>>)
           /\ (tts.backend = "cloud" /\ tts.apiKey \in {Undefined, ""})
                  => (tts.error # <<>> /\ tts.fetches = 0)
           /\ tts.response \in {"notOk", "reject"} => tts.error # <<>>
           /\ (tts.written = "fail" \/ tts.ffmpeg = "fail" \/ tts.read = "fail")
                  => tts.error # <<>>
           /\ tts.media \in {"missing", "reject"} => tts.error # <<>>
           /\ tts.error = <<>>
                  => \/ tts.backend = "local" /\ tts.media = "returned"
                     \/ /\ tts.backend = "cloud" /\ tts.fetches = 1
                        /\ tts.response = "ok" /\ tts.read = "ok"

C25_Witness ==
    /\ tts.pc = "done"
    /\ tts.backend = "cloud"
    /\ tts.apiKey = ""
    /\ tts.fetches = 0
    /\ tts.wave = NoWave
    /\ tts.error # <<>>

\* C27: every waveform a synthesis call returns is a WAV container that
\* declares 1 channel, 24000 Hz and 16-bit samples, from the cloud tool and
\* from the local tool alike, and holds the samples the call obtained.
C27_CanonicalWav ==
    (tts.pc = "done" /\ tts.error = <<>>)
        => /\ tts.wave.channels = 1
           /\ tts.wave.sampleRate = 24000
           /\ tts.wave.bitDepth = 16
           /\ tts.wave.data = tts.pcm

C27_Witness ==
    /\ tts.pc = "done"
    /\ tts.backend = "local"
    /\ tts.wave.bitDepth = 16
    /\ tts.wave.data = <<"s1", "s2">>

\* C26: the synthesis backend is selected once per run: the flow starts by
\* taking local if USE_LOCAL_TTS is 'true' then and cloud otherwise, every
\* synthesis call of the run goes to that backend, and an assignment to the
\* flag while the run is in progress changes nothing for the remaining turns.
C26_BackendSelectedOnce ==
    /\ [](log.flow = "invoked"
            => /\ useLocalTTS => calls.synthCloud = 0
               /\ ~useLocalTTS => calls.synthLocal = 0)
    /\ [][/\ (log.flow = "none" /\ log'.flow = "invoked") => useLocalTTS' = (env = "true")
          /\ log.flow = "invoked" => useLocalTTS' = useLocalTTS
          /\ (pc = "synth" /\ pc' # "synth")
                 => IF useLocalTTS
                    THEN calls'.synthLocal = calls.synthLocal + 1
                    ELSE calls'.synthCloud = calls.synthCloud + 1]_vars

C26_Witness ==
    /\ pc = "synth"
    /\ useLocalTTS
    /\ calls.synthLocal = 1
    /\ calls.synthCloud = 0
    /\ env = "false"

\* C28: the speaking order of a round is not fixed: when a round of a
\* request with two distinct participants starts, the order of the request
\* and an order different from it can both be taken, and from the second
\* round on both the order of the round before and an order different from
\* it can be taken.
C28_OrderNotFixed ==
    (pc = "round" /\ round <= req.rounds
        /\ Cardinality({req.participants[i] : i \in 1..Len(req.participants)}) >= 2)
        => /\ ENABLED (StartRound /\ order' = req.participants)
           /\ ENABLED (StartRound /\ order' # req.participants)
           /\ round >= 2
                  => /\ ENABLED (StartRound /\ order' = order)
                     /\ ENABLED (StartRound /\ order' # order)

C28_Witness ==
    /\ pc = "generate"
    /\ round = 2
    /\ Len(req.participants) = 2
    /\ Len(transcript) = 2
    /\ order[1] = "nietzsche"
    /\ transcript[1].speaker = "Nikola Tesla"
    /\ order[2] = "tesla"
    /\ transcript[2].speaker = "Friedrich Nietzsche"

\* C29: in the variant that always generates audio, a turn whose synthesis
\* call throws or returns an empty result is still appended to the
\* transcript, so that a run that returns holds rounds x participants turns.
C29_FailedSynthesisStillAppended ==
    /\ (pc \in {"generate", "round"} /\ log.flow = "invoked")
            => Len(transcript) = calls.generate
    /\ (pc = "returned" /\ result.status = "success")
            => Len(result.data.transcript) = req.rounds * Len(req.participants)

\* C30: in the variant that always generates audio, a failure of the
\* transcoding command is not fatal (the run returns its transcript with no
\* podcast), and the command is never invoked with an empty manifest.
C30_FfmpegFailureNotFatal ==
    /\ (pc = "done" /\ log.ffmpeg = "fail")
            => /\ envelope.status = "success"
               /\ envelope.data.podcast = ""
    /\ calls.ffmpeg >= 1 => Len(manifest) > 0

\* C31: in every returned result podcast is '' or 'final_debate.mp3'; it is
\* 'final_debate.mp3' only if generateAudio is true, some turn has an
\* audioFile and the transcoding command of this run succeeded; duration is
\* '12:45' exactly when podcast is non-empty and '0:00' otherwise, whatever
\* the number of turns with audio.
C31_PodcastAndDuration ==
    result.status = "success"
        => /\ result.data.podcast \in {"", "final_debate.mp3"}
           /\ result.data.podcast = "final_debate.mp3"
                  => /\ req.generateAudio
                     /\ \E i \in 1..Len(result.data.transcript) :
                            result.data.transcript[i].audioFile # NoAudio
                     /\ calls.ffmpeg = 1
                     /\ log.ffmpeg = "ok"
           /\ result.data.duration \in {"12:45", "0:00"}
           /\ result.data.duration = "12:45" <=> result.data.podcast # ""

C31_Witness ==
    /\ result.status = "success"
    /\ result.data.podcast = "final_debate.mp3"
    /\ result.data.duration = "12:45"
    /\ Len(result.data.transcript) = 2
    /\ result.data.transcript[1].audioFile = NoAudio
    /\ result.data.transcript[2].audioFile # NoAudio

\* C32: a turn carries an audioFile only if the write of that file completed
\* in this run; when the write fails the turn is appended without audioFile
\* and the run continues, as after a synthesis failure.
C32_ClipWriteIsolated ==
    /\ \A i \in 1..Len(transcript) :
           transcript[i].audioFile # NoAudio => transcript[i].audioFile \in files
    /\ turnData.audioFile # NoAudio
           => turnData.audioFile \in files /\ log.clip = "ok"
    /\ log.clip = "fail"
           => /\ pc = "push"
              /\ turnData.audioFile = NoAudio
              /\ turnData.text \in Texts
              /\ error = NoError
              /\ ENABLED PushTurn
    /\ (result.status = "success" /\ Admitted)
           => Len(result.data.transcript) = TurnsAsked

C32_Witness ==
    /\ result.status = "success"
    /\ calls.clipWrite = 2
    /\ Len(result.data.transcript) = 2
    /\ result.data.transcript[1].audioFile = NoAudio
    /\ result.data.transcript[2].audioFile = ClipName(1)
    /\ ClipName(0) \notin files

\* C33: each turn makes one text-generation call and, with generateAudio,
\* one synthesis call, and none is made again after a failure: a run that
\* completed R rounds of P participants made R x P generation calls and 0
\* or R x P synthesis calls.
C33_CallCounts ==
    /\ calls.generate \in {Len(transcript), Len(transcript) + 1}
    /\ SynthCalls <= calls.generate
    /\ req.generateAudio => SynthCalls >= Len(transcript)
    /\ ~req.generateAudio => SynthCalls = 0
    /\ pc = "push" => calls.generate = Len(transcript) + 1
    /\ (pc = "push" /\ req.generateAudio) => SynthCalls = Len(transcript) + 1
    /\ result.status = "success"
           => /\ calls.generate = req.rounds * Len(req.participants)
              /\ SynthCalls = IF req.generateAudio
                              THEN req.rounds * Len(req.participants) ELSE 0

C33_Witness ==
    /\ result.status = "success"
    /\ req.generateAudio
    /\ req.rounds = 2
    /\ Len(req.participants) = 2
    /\ calls.generate = 4
    /\ SynthCalls = 4
    /\ \A i \in 1..4 : result.data.transcript[i].audioFile = NoAudio

\* C35: for every turn the text is generated with the model of the persona
\* registered under the speaking participant's id, the synthesis call gets
\* that persona's voiceId and exactly the generated text, and the speaker of
\* the turn is that persona's name.
C35_PersonaOfTurn ==
    (pc \in {"synth", "writeClip", "push"} /\ order[pos] \in DOMAIN personas)
        => /\ prompt.model = personas[order[pos]].ollamaModel
           /\ prompt.systemPrompt = personas[order[pos]].systemPrompt
           /\ turnData.speaker = personas[order[pos]].name
           /\ turnData.text \in Texts
           /\ log.synth # "none"
                  => /\ log.synthInput.voiceId = personas[order[pos]].voiceId
                     /\ log.synthInput.text = turnData.text
           /\ (pc = "push" /\ req.generateAudio) => log.synth # "none"

C35_Witness ==
    /\ pc = "writeClip"
    /\ Len(transcript) = 1
    /\ transcript[1].speaker = "Nikola Tesla"
    /\ order[pos] = "nietzsche"
    /\ prompt.model = "llama3"
    /\ log.synthInput = [text |-> "Stub reply.", voiceId |-> "voice-nietzsche"]
    /\ turnData.speaker = "Friedrich Nietzsche"

\* C34: if every external call eventually returns or fails, every run of
\* the flow eventually ends, by returning a result or by throwing an error.
C34_Terminates ==
    (pc = "validate")
        ~> (\/ pc = "returned" /\ result.status = "success"
            \/ pc = "thrown" /\ error # NoError)

C34_Witness ==
    /\ pc = "returned"
    /\ result.status = "success"
    /\ Len(req.participants) = 3
    /\ calls.generate = 3
    /\ log.ffmpeg = "fail"
    /\ log.unlinkManifest = "fail"

\* C36: after a successful addPersona call with an id new to the store, the
\* persisted store holds every initial persona, every persona it held
\* before the call, unchanged, and the one added: no earlier addition is
\* lost when a later one rewrites the store.
C36_NoAdditionLost ==
    (registry.reply.status = "success" /\ registry.last.id \notin DOMAIN registry.before)
        => /\ \A k \in DOMAIN personas : k \in DOMAIN registry.file
           /\ \A k \in DOMAIN registry.before :
                  k \in DOMAIN registry.file /\ registry.file[k] = registry.before[k]
           /\ registry.last.id \in DOMAIN registry.file

C38_OneClipPlays ==
    /\ Cardinality(player.playing) <= 1
    /\ player.playing \subseteq {player.activeAudioFile}
    /\ player.activeAudioFile \in {Null, player.started}
    /\ (player.last.kind = "click" /\ player.last.found = player.last.clip)
           => /\ player.activeAudioFile = Null
              /\ player.last.clip \notin player.playing
              /\ player.last.played = Null
    /\ (player.last.kind = "click" /\ player.last.found # player.last.clip)
           => /\ player.last.found \notin player.playing
              /\ player.last.played = player.last.clip
              /\ player.started = player.last.clip
              /\ (player.activeAudioFile = player.last.clip
                      /\ player.currentTime[player.last.clip] > 0)
                     => player.last.clip \in player.playing
              /\ player.activeAudioFile \in {Null, player.last.clip}
    /\ player.last.kind = "ended" => player.activeAudioFile = Null

C38_Witness ==
    /\ player.last = [kind |-> "click", clip |-> ClipName(1), found |-> ClipName(0),
                      played |-> ClipName(1)]
    /\ player.currentTime[ClipName(0)] > 0
    /\ player.currentTime[ClipName(1)] = 0
    /\ player.playing = {ClipName(1)}
    /\ player.activeAudioFile = ClipName(1)

\* C40: in the earlier, cloud-only version of the flow, toWav removes its
\* two temporary files, temp.pcm and temp.wav, on every exit path: after it
\* returned or threw neither file exists.
C40_LegacyTempFilesRemoved ==
    tts.pc \in {"returned", "thrown"}
        => TempPcm \notin tts.temp /\ TempWav \notin tts.temp

====
